---- MODULE Spec2Model ----
(***************************************************************************)
(* A model of the saved-account registry of the chat backend               *)
(* (convex/users.ts: saveAccount, getSavedAccounts, getAccountCount).      *)
(*                                                                         *)
(* A table is a sequence of documents in creation order, which is the      *)
(* order a table scan returns them in (ascending _creationTime); a         *)
(* document's id is the value of the insert counter when it was created.   *)
(***************************************************************************)
EXTENDS Integers, Sequences, FiniteSets, TLC

VARIABLES savedAccounts, users, userActivity, messages, typing, now, nextId,
          ops, seenDevices, last, txn, ui, outbox, inbox

\* The tables of the chat and the state of the clients' components.
chatVars == <<messages, typing>>

clientVars == <<ui, outbox, inbox>>

vars == <<savedAccounts, users, userActivity, chatVars, now, nextId, ops,
          seenDevices, last, txn, clientVars>>

----------------------------------------------------------------------------
(* Bounds of the model *)

\* Number of mutations executed one at a time in a behaviour.
MaxOps == 5

\* Number of handler executions (runs and re-runs) of overlapping calls.
MaxRuns == 5

----------------------------------------------------------------------------
(* Inputs *)

\* args.avatar is optional: the value of an absent field.
Undefined == "undefined"

\* The device identifiers and usernames of the calls.
Devices == {"D1", "D2"}

Usernames == {"alice", "bob", "carol", "dave"}

\* A device identifier no client ever saves under.
UnseenDevice == "D3"

\* The device ids and usernames of calls with an empty argument: saveAccount
\* is a public mutation and its validators take any string.
BlankDevices == {"", "D1"}

BlankUsernames == {"", "alice"}

\* The mutable fields of a call: color, status, avatar, preferences.
Profiles ==
  { [color |-> "#000000", status |-> "", avatar |-> Undefined,
     preferences |-> [theme |-> "light", notifications |-> TRUE, sound |-> TRUE]],
    [color |-> "#ff0000", status |-> "busy", avatar |-> "data:image/jpeg",
     preferences |-> [theme |-> "dark", notifications |-> FALSE, sound |-> TRUE]] }

\* What the account-creation flow passes for a new account.
DefaultProfile == CHOOSE p \in Profiles : p.color = "#000000"

\* The usernames of the calls that vary the profile.
ProfileUsernames == {"alice", "bob"}

\* How far the server clock (Date.now(), in ms) moves from one function
\* execution to the next.
LaterMs == {1}

Args(deviceId, username, profile) ==
  [deviceId |-> deviceId, username |-> username, color |-> profile.color,
   status |-> profile.status, avatar |-> profile.avatar,
   preferences |-> profile.preferences]

----------------------------------------------------------------------------
(* The document store: query, insert, patch, delete *)

\* .order("desc"): a scan without an index is ordered by creation time.
RECURSIVE Reverse(_)
Reverse(docs) ==
  IF docs = <<>> THEN <<>> ELSE Append(Reverse(Tail(docs)), Head(docs))

\* .take(n)
Take(docs, n) == IF Len(docs) <= n THEN docs ELSE SubSeq(docs, 1, n)

Ids(table) == {table[i].id : i \in DOMAIN table}

\* ctx.db.delete(id)
DbDelete(table, id) == SelectSeq(table, LAMBDA doc : doc.id # id)

\* ctx.db.insert(table, doc)
DbInsert(table, doc) == Append(table, doc)

\* doc.avatar, undefined when the document has no such field.
AvatarOf(doc) == IF "avatar" \in DOMAIN doc THEN doc.avatar ELSE Undefined

\* ctx.db.patch(id, fields): the fields given replace those of the document.
Patched(doc, fields) == fields @@ doc

DbPatch(table, id, fields) ==
  [i \in DOMAIN table |->
     IF table[i].id = id THEN Patched(table[i], fields) ELSE table[i]]

\* One write of a function execution, applied to a table. A patch or a delete
\* of a document that does not exist throws.
WriteThrows(table, w) == w.kind \in {"patch", "delete"} /\ w.id \notin Ids(table)

ApplyWrite(table, w, id) ==
  CASE w.kind = "patch"  -> DbPatch(table, w.id, w.doc)
    [] w.kind = "delete" -> DbDelete(table, w.id)
    [] w.kind = "insert" -> DbInsert(table, [id |-> id] @@ w.doc)

\* The writes of one execution to table `name`, in order, on `table`; every
\* insert takes the next id. The result is <<table, next id, threw>>.
RECURSIVE ApplyWrites(_, _, _, _)
ApplyWrites(name, table, writes, id) ==
  IF writes = <<>> THEN <<table, id, FALSE>>
  ELSE LET w == Head(writes) IN
       IF w.table # name THEN ApplyWrites(name, table, Tail(writes), id)
       ELSE IF WriteThrows(table, w) THEN <<table, id, TRUE>>
       ELSE ApplyWrites(name, ApplyWrite(table, w, id), Tail(writes),
                        IF w.kind = "insert" THEN id + 1 ELSE id)

----------------------------------------------------------------------------
(* saveAccount *)

\* The device's account limit.
AccountLimit == 3

\* Faulty variant: the lookup compares the deviceId field with the username
ExistingAccountWrongField(table, args) ==
  Take(SelectSeq(table, LAMBDA doc : doc.deviceId = args.username
                                     /\ doc.username = args.username), 1)

\* The lookup of the account of (deviceId, username): at most one document.
ExistingAccount(table, args) ==
  Take(SelectSeq(table, LAMBDA doc : doc.deviceId = args.deviceId
                                     /\ doc.username = args.username), 1)

\* ctx.db.query("savedAccounts").filter(deviceId = args.deviceId): the
\* accounts of a device, in creation order.
AccountsOf(table, deviceId) ==
  SelectSeq(table, LAMBDA doc : doc.deviceId = deviceId)

\* Faulty variant: the limit test off by one: accounts.length > 3
LimitReachedOffByOne(accounts) == Len(accounts) > AccountLimit

\* accounts.length >= 3
LimitReached(accounts) == Len(accounts) >= AccountLimit

\* accounts.reduce((oldest, current) =>
\*   current.lastUsed < oldest.lastUsed ? current : oldest)
\* Faulty variant: of several accounts with the least lastUsed, the last one
\* is kept
RECURSIVE ReduceLastOfTies(_, _)
ReduceLastOfTies(oldest, rest) ==
  IF rest = <<>> THEN oldest
  ELSE ReduceLastOfTies(IF Head(rest).lastUsed <= oldest.lastUsed
                          THEN Head(rest) ELSE oldest,
                        Tail(rest))

RECURSIVE Reduce(_, _)
Reduce(oldest, rest) ==
  IF rest = <<>> THEN oldest
  ELSE Reduce(IF Head(rest).lastUsed < oldest.lastUsed THEN Head(rest) ELSE oldest,
              Tail(rest))

\* Faulty variant: the oldest account taken to be the first created
OldestAccountFirstCreated(accounts) == Head(accounts)

OldestAccount(accounts) == Reduce(Head(accounts), Tail(accounts))

\* Faulty variant: the patch of an existing account leaves the status out
AccountPatchNoStatus(args, t) ==
  [color |-> args.color, avatar |-> args.avatar,
   preferences |-> args.preferences, lastUsed |-> t]

\* The fields saveAccount patches an existing account with.
AccountPatch(args, t) ==
  [color |-> args.color, status |-> args.status, avatar |-> args.avatar,
   preferences |-> args.preferences, lastUsed |-> t]

\* The document saveAccount inserts for a new account.
NewAccount(args, t) ==
  [deviceId |-> args.deviceId, username |-> args.username, color |-> args.color,
   status |-> args.status, avatar |-> args.avatar,
   preferences |-> args.preferences, lastUsed |-> t]

\* The lookup of the user record of a username: at most one document.
UserOf(table, username) ==
  Take(SelectSeq(table, LAMBDA doc : doc.username = username), 1)

UserPatch(args, t) ==
  [color |-> args.color, status |-> args.status, avatar |-> args.avatar,
   preferences |-> args.preferences, lastSeen |-> t, isOnline |-> TRUE,
   lastActivity |-> t]

NewUser(args, t) ==
  [username |-> args.username, color |-> args.color, status |-> args.status,
   avatar |-> args.avatar, preferences |-> args.preferences, lastSeen |-> t,
   isOnline |-> TRUE, lastActivity |-> t]

Write(table, kind, id, doc) == [table |-> table, kind |-> kind, id |-> id, doc |-> doc]

\* Faulty variant: no eviction on the new-account path
EvictionNone(accounts) == <<>>

\* The eviction of the new-account path: the delete of the oldest account
\* when the device has reached the limit.
Eviction(accounts) ==
  IF LimitReached(accounts)
  THEN <<Write("savedAccounts", "delete", OldestAccount(accounts).id, <<>>)>>
  ELSE <<>>

\* The create-or-update of the user record at the end of the new-account path.
UserWrite(table, args, t) ==
  LET user == UserOf(table, args.username) IN
  IF user # <<>>
  THEN <<Write("users", "patch", user[1].id, UserPatch(args, t))>>
  ELSE <<Write("users", "insert", 0, NewUser(args, t))>>

\* The handler of saveAccount run at time t on the tables it is given: the
\* path it takes and the writes it makes, in order.  Date.now() is the time
\* of the execution throughout.
SaveAccountPath(saved, args) ==
  IF ExistingAccount(saved, args) # <<>> THEN "update" ELSE "create"

\* Faulty variant: a handler that inserts without looking for an existing account
SaveAccountAlwaysInsert(saved, usrs, args, t) ==
  Eviction(AccountsOf(saved, args.deviceId))
  \o <<Write("savedAccounts", "insert", 0, NewAccount(args, t))>>
  \o UserWrite(usrs, args, t)

\* Faulty variant: the user record is written on the existing-account path too
SaveAccountRefreshingUser(saved, usrs, args, t) ==
  LET existingAccount == ExistingAccount(saved, args) IN
  IF existingAccount # <<>>
  THEN <<Write("savedAccounts", "patch", existingAccount[1].id, AccountPatch(args, t))>>
       \o UserWrite(usrs, args, t)
  ELSE Eviction(AccountsOf(saved, args.deviceId))
       \o <<Write("savedAccounts", "insert", 0, NewAccount(args, t))>>
       \o UserWrite(usrs, args, t)

\* Faulty variant: the limit and the eviction taken over the whole table
SaveAccountEvictingAnyDevice(saved, usrs, args, t) ==
  LET existingAccount == ExistingAccount(saved, args) IN
  IF existingAccount # <<>>
  THEN <<Write("savedAccounts", "patch", existingAccount[1].id, AccountPatch(args, t))>>
  ELSE Eviction(saved)
       \o <<Write("savedAccounts", "insert", 0, NewAccount(args, t))>>
       \o UserWrite(usrs, args, t)

SaveAccountWrites(saved, usrs, args, t) ==
  LET existingAccount == ExistingAccount(saved, args) IN
  IF existingAccount # <<>>
  THEN <<Write("savedAccounts", "patch", existingAccount[1].id, AccountPatch(args, t))>>
  ELSE Eviction(AccountsOf(saved, args.deviceId))
       \o <<Write("savedAccounts", "insert", 0, NewAccount(args, t))>>
       \o UserWrite(usrs, args, t)

----------------------------------------------------------------------------
(* The queries *)

\* Faulty variant: the list taken over the whole table
GetSavedAccountsAllDevices(table, deviceId) == Take(Reverse(table), 3)

\* getSavedAccounts: the device's accounts, .order("desc").take(3).
GetSavedAccounts(table, deviceId) == Take(Reverse(AccountsOf(table, deviceId)), 3)

\* Faulty variant: listing the accounts marks them as used
GetSavedAccountsTouching(table, deviceId, t) ==
  [i \in 1..Len(AccountsOf(table, deviceId)) |->
     Write("savedAccounts", "patch", AccountsOf(table, deviceId)[i].id,
           [lastUsed |-> t])]

\* The writes of the handlers of getSavedAccounts and getAccountCount: they
\* only query.
GetSavedAccountsWrites(table, deviceId, t) == <<>>

GetAccountCountWrites(table, deviceId, t) == <<>>

\* Faulty variant: the count taken over the whole table
GetAccountCountAllDevices(table, deviceId) ==
  [count |-> Len(table), maxAccounts |-> 3]

\* getAccountCount
GetAccountCount(table, deviceId) ==
  [count |-> Len(AccountsOf(table, deviceId)), maxAccounts |-> 3]

----------------------------------------------------------------------------
(* Mutations executed one at a time *)

Clients == {"c1", "c2"}

Idle == [state |-> "idle"]

\* useState<string | null>(null): the device id before it is loaded.
Null == "null"

\* The two versions of the component: the one whose form saves an account,
\* and the one whose form enters the chat.
SaveVersion == "save"

ChatVersion == "chat"

Versions == {SaveVersion, ChatVersion}

\* The component of a client as it starts (useState): no device id, the
\* username "", and no query result has arrived.
NoInput ==
  [version |-> SaveVersion, deviceId |-> Null, username |-> "",
   isUsernameSet |-> FALSE, userColor |-> "#000000", userStatus |-> "",
   avatar |-> "", userInfo |-> <<>>, savedAccounts |-> <<>>,
   checkUsername |-> <<>>, accountCount |-> <<>>]

\* The last call that completed: its arguments, its time, the path it took,
\* whether it threw, how many times it was run, and the tables before it.
NoCall ==
  [op |-> "none", args |-> Args("", "", DefaultProfile), time |-> 0,
   path |-> "none", threw |-> FALSE, runs |-> 0,
   prevSaved |-> <<>>, prevUsers |-> <<>>, prevId |-> 1, recent |-> <<>>]

\* The username each device saved last, as the calls so far have left it.
Recent == last.recent

Init ==
  /\ savedAccounts = <<>>
  /\ users = <<>>
  /\ userActivity = <<>>
  /\ messages = <<>>
  /\ typing = <<>>
  /\ ui = [c \in Clients |-> NoInput]
  /\ outbox = [c \in Clients |-> <<>>]
  /\ inbox = [c \in Clients |-> <<>>]
  /\ now = 0
  /\ nextId = 1
  /\ ops = 0
  /\ seenDevices = {}
  /\ last = NoCall
  /\ txn = [c \in Clients |-> Idle]

\* The result of running a list of writes as one transaction on the tables:
\* all of them, or none when one throws.
Committed(saved, usrs, writes, id) ==
  LET rs == ApplyWrites("savedAccounts", saved, writes, id)
      ru == ApplyWrites("users", usrs, writes, rs[2])
      threw == rs[3] \/ ru[3]
  IN [savedAccounts |-> IF threw THEN saved ELSE rs[1],
      users |-> IF threw THEN usrs ELSE ru[1],
      nextId |-> IF threw THEN id ELSE ru[2],
      threw |-> threw]

\* One call of saveAccount, the clock having moved by dt since the last call.
SaveAccount(deviceId, username, profile, dt) ==
  LET t == now + dt
      args == Args(deviceId, username, profile)
      done == Committed(savedAccounts, users,
                        SaveAccountWrites(savedAccounts, users, args, t), nextId)
  IN /\ ops < MaxOps
     /\ savedAccounts' = done.savedAccounts
     /\ users' = done.users
     /\ nextId' = done.nextId
     /\ now' = t
     /\ ops' = ops + 1
     /\ seenDevices' = seenDevices \cup {deviceId}
     /\ last' = [op |-> "saveAccount", args |-> args, time |-> t,
                 path |-> SaveAccountPath(savedAccounts, args),
                 threw |-> done.threw, runs |-> 1,
                 prevSaved |-> savedAccounts, prevUsers |-> users,
                 prevActivity |-> userActivity, prevId |-> nextId,
                 recent |-> IF done.threw THEN Recent
                            ELSE (deviceId :> username) @@ Recent]
     /\ UNCHANGED <<txn, userActivity, chatVars, clientVars>>

\* Calls executed one at a time, each in a later millisecond: any device and
\* username, with the profile of a new account.
Next ==
  \E deviceId \in Devices, username \in Usernames, dt \in LaterMs :
    SaveAccount(deviceId, username, DefaultProfile, dt)

Spec == Init /\ [][Next]_vars

\* The clock of a call: the millisecond of the call before it, or a later
\* one.
SameOrLaterMs == {0, 1}

TieDevice == "D1"

\* Calls executed one at a time on one device, some of them within the same
\* millisecond.
NextTies ==
  \E username \in Usernames, dt \in SameOrLaterMs :
    SaveAccount(TieDevice, username, DefaultProfile, dt)

SpecTies == Init /\ [][NextTies]_vars

\* Calls executed one at a time on one device, for two usernames and with
\* either profile, some of them within the same millisecond.
NextProfiles ==
  \E username \in ProfileUsernames, profile \in Profiles, dt \in SameOrLaterMs :
    SaveAccount(TieDevice, username, profile, dt)

SpecProfiles == Init /\ [][NextProfiles]_vars

\* Calls executed one at a time, with an empty device id or an empty
\* username among them.
NextBlank ==
  \E deviceId \in BlankDevices, username \in BlankUsernames, dt \in LaterMs :
    SaveAccount(deviceId, username, DefaultProfile, dt)

SpecBlank == Init /\ [][NextBlank]_vars

----------------------------------------------------------------------------
(* The mutations of the users table: updatePreferences, updateStatus,       *)
(* updateAppearance, updatePresence and updateAvatar                        *)

MaxUserCalls == 4

\* preferences: {}
NoPreferences == <<>>

\* The arguments of the calls: preferences with the three keys set, a
\* status, a color and an avatar.
NewPreferences == [theme |-> "dark", notifications |-> FALSE, sound |-> TRUE]

NewStatus == "busy"

NewColor == "#ff0000"

NewAvatar == "data:image/jpeg"

\* An entry of the activity log; details is optional.
Activity(username, type, t) == [username |-> username, type |-> type, timestamp |-> t]

ActivityWith(username, type, t, details) ==
  [username |-> username, type |-> type, timestamp |-> t, details |-> details]

\* The user a mutation inserts when there is none.
InsertedUser(username, color, status, preferences, t) ==
  [username |-> username, color |-> color, status |-> status,
   preferences |-> preferences, lastSeen |-> t, isOnline |-> TRUE,
   lastActivity |-> t]

UpdatePreferencesWrites(usrs, args, t) ==
  LET user == UserOf(usrs, args.username) IN
  IF user # <<>>
  THEN <<Write("users", "patch", user[1].id,
               [preferences |-> args.preferences, lastSeen |-> t, lastActivity |-> t])>>
  ELSE <<Write("users", "insert", 0,
               InsertedUser(args.username, "#000000", "", args.preferences, t))>>

UpdateStatusWrites(usrs, args, t) ==
  LET user == UserOf(usrs, args.username)
      log == Write("userActivity", "insert", 0,
                   ActivityWith(args.username, "status_change", t, args.status))
  IN IF user # <<>>
     THEN <<Write("users", "patch", user[1].id,
                  [status |-> args.status, lastSeen |-> t, lastActivity |-> t]),
            log>>
     ELSE <<Write("users", "insert", 0,
                  InsertedUser(args.username, "#000000", args.status, NoPreferences, t)),
            log>>

\* Faulty variant: a user is inserted without looking for an existing one
UpdateAppearanceInserting(usrs, args, t) ==
  <<Write("users", "insert", 0,
          InsertedUser(args.username, args.color, "", NoPreferences, t)),
    Write("userActivity", "insert", 0,
          ActivityWith(args.username, "color_change", t, args.color))>>

UpdateAppearanceWrites(usrs, args, t) ==
  LET user == UserOf(usrs, args.username)
      log == Write("userActivity", "insert", 0,
                   ActivityWith(args.username, "color_change", t, args.color))
  IN IF user # <<>>
     THEN <<Write("users", "patch", user[1].id,
                  [color |-> args.color, lastActivity |-> t]),
            log>>
     ELSE <<Write("users", "insert", 0,
                  InsertedUser(args.username, args.color, "", NoPreferences, t)),
            log>>

\* Faulty variant: the presence of an unknown user creates the user
UpdatePresenceCreating(usrs, args, t) ==
  LET user == UserOf(usrs, args.username)
      log == Write("userActivity", "insert", 0,
                   Activity(args.username,
                            IF args.isOnline THEN "login" ELSE "logout", t))
  IN IF user # <<>>
     THEN <<Write("users", "patch", user[1].id,
                  [isOnline |-> args.isOnline, lastSeen |-> t, lastActivity |-> t]),
            log>>
     ELSE <<Write("users", "insert", 0,
                  InsertedUser(args.username, "#000000", "", NoPreferences, t)),
            log>>

UpdatePresenceWrites(usrs, args, t) ==
  LET user == UserOf(usrs, args.username) IN
  IF user # <<>>
  THEN <<Write("users", "patch", user[1].id,
               [isOnline |-> args.isOnline, lastSeen |-> t, lastActivity |-> t]),
         Write("userActivity", "insert", 0,
               Activity(args.username,
                        IF args.isOnline THEN "login" ELSE "logout", t))>>
  ELSE <<>>

UpdateAvatarWrites(usrs, args, t) ==
  LET user == UserOf(usrs, args.username) IN
  IF user # <<>>
  THEN <<Write("users", "patch", user[1].id,
               [avatar |-> args.avatar, lastActivity |-> t]),
         Write("userActivity", "insert", 0,
               Activity(args.username, "avatar_change", t))>>
  ELSE <<>>

\* One call of a mutation of users, the clock having moved by dt.
UserCall(op, args, writes, dt) ==
  LET ru == ApplyWrites("users", users, writes, nextId)
      ra == ApplyWrites("userActivity", userActivity, writes, ru[2])
  IN /\ ops < MaxUserCalls
     /\ ops' = ops + 1
     /\ now' = now + dt
     /\ users' = ru[1]
     /\ userActivity' = ra[1]
     /\ nextId' = ra[2]
     /\ last' = [op |-> op, args |-> args, time |-> now + dt,
                 threw |-> ru[3] \/ ra[3], prevSaved |-> savedAccounts,
                 prevUsers |-> users, prevActivity |-> userActivity,
                 prevId |-> nextId, recent |-> Recent]
     /\ UNCHANGED <<savedAccounts, chatVars, seenDevices, txn, clientVars>>

UpdatePreferences(username, preferences, dt) ==
  LET args == [username |-> username, preferences |-> preferences] IN
  UserCall("updatePreferences", args,
           UpdatePreferencesWrites(users, args, now + dt), dt)

UpdateStatus(username, status, dt) ==
  LET args == [username |-> username, status |-> status] IN
  UserCall("updateStatus", args, UpdateStatusWrites(users, args, now + dt), dt)

UpdateAppearance(username, color, dt) ==
  LET args == [username |-> username, color |-> color] IN
  UserCall("updateAppearance", args,
           UpdateAppearanceWrites(users, args, now + dt), dt)

UpdatePresence(username, isOnline, dt) ==
  LET args == [username |-> username, isOnline |-> isOnline] IN
  UserCall("updatePresence", args, UpdatePresenceWrites(users, args, now + dt), dt)

UpdateAvatar(username, avatar, dt) ==
  LET args == [username |-> username, avatar |-> avatar] IN
  UserCall("updateAvatar", args, UpdateAvatarWrites(users, args, now + dt), dt)

\* The six mutations that write users, called one at a time for two
\* usernames; saveAccount is called from one device.
NextUsers ==
  \E username \in ProfileUsernames, dt \in LaterMs :
    \/ UpdatePreferences(username, NewPreferences, dt)
    \/ UpdateStatus(username, NewStatus, dt)
    \/ UpdateAppearance(username, NewColor, dt)
    \/ \E isOnline \in BOOLEAN : UpdatePresence(username, isOnline, dt)
    \/ UpdateAvatar(username, NewAvatar, dt)
    \/ ops < MaxUserCalls /\ SaveAccount(TieDevice, username, DefaultProfile, dt)

SpecUsers == Init /\ [][NextUsers]_vars

----------------------------------------------------------------------------
(* The queries called between the mutations *)

\* The devices the queries are called for.
QueryDevices == Devices \cup {UnseenDevice}

\* The usernames saved between the queries.
QueryUsernames == {"alice", "bob", "carol"}

\* One call of a query: its result, and the tables before it.
QueryCall(op, deviceId, result, writes) ==
  LET done == Committed(savedAccounts, users, writes, nextId) IN
  /\ savedAccounts' = done.savedAccounts
  /\ users' = done.users
  /\ nextId' = done.nextId
  /\ last' = [op |-> op, args |-> [deviceId |-> deviceId], result |-> result,
              threw |-> done.threw, prevSaved |-> savedAccounts,
              prevUsers |-> users, prevActivity |-> userActivity,
              recent |-> Recent]
  /\ UNCHANGED <<userActivity, chatVars, now, ops, seenDevices, txn, clientVars>>

GetSavedAccountsCall(deviceId) ==
  QueryCall("getSavedAccounts", deviceId,
            GetSavedAccounts(savedAccounts, deviceId),
            GetSavedAccountsWrites(savedAccounts, deviceId, now))

GetAccountCountCall(deviceId) ==
  QueryCall("getAccountCount", deviceId,
            GetAccountCount(savedAccounts, deviceId),
            GetAccountCountWrites(savedAccounts, deviceId, now))

NextReads ==
  \/ \E deviceId \in Devices, username \in QueryUsernames, dt \in LaterMs :
       SaveAccount(deviceId, username, DefaultProfile, dt)
  \/ \E deviceId \in QueryDevices : GetSavedAccountsCall(deviceId)
  \/ \E deviceId \in QueryDevices : GetAccountCountCall(deviceId)

SpecReads == Init /\ [][NextReads]_vars

----------------------------------------------------------------------------
(* Calls that overlap.  saveAccount is a mutation: the platform runs its    *)
(* handler as a transaction on a snapshot of the tables and commits its     *)
(* writes only when nothing the handler read has changed since the          *)
(* snapshot; otherwise it runs the handler again on the new state.          *)

\* The usernames of the overlapping calls, all for one device.
ConcDevice == "D1"

\* A scan reads the documents up to the one .first() stops at, or the whole
\* table (and its end) when it runs to the end.
WholeTable == -1

ReadView(table, upto) ==
  IF upto = WholeTable THEN table
  ELSE SelectSeq(table, LAMBDA doc : doc.id <= upto)

\* What the handler read of savedAccounts and of users on a snapshot.
SavedRead(saved, args) ==
  LET existingAccount == ExistingAccount(saved, args) IN
  IF existingAccount # <<>> THEN existingAccount[1].id ELSE WholeTable

UsersRead(saved, usrs, args) ==
  LET user == UserOf(usrs, args.username) IN
  IF ExistingAccount(saved, args) # <<>> THEN 0
  ELSE IF user # <<>> THEN user[1].id ELSE WholeTable

\* Faulty variant: writes committed without the check, as outside a transaction
ValidateNothing(t) == TRUE

\* The commit check: what the execution read is what the tables hold now.
Validate(t) ==
  /\ ReadView(savedAccounts, SavedRead(t.saved, t.args))
       = ReadView(t.saved, SavedRead(t.saved, t.args))
  /\ ReadView(users, UsersRead(t.saved, t.users, t.args))
       = ReadView(t.users, UsersRead(t.saved, t.users, t.args))

Running(args, t, runs) ==
  [state |-> "running", args |-> args, time |-> t, runs |-> runs,
   saved |-> savedAccounts, users |-> users, lost |-> <<>>]

\* The patch or the delete of execution t whose target is no longer in
\* savedAccounts.
LostWrites(t) ==
  SelectSeq(SaveAccountWrites(t.saved, t.users, t.args, t.time),
            LAMBDA w : w.table = "savedAccounts" /\ WriteThrows(savedAccounts, w))

\* The first such write of a call, over its executions.
Lost(t) == IF t.lost # <<>> THEN t.lost ELSE LostWrites(t)

\* A client calls saveAccount: the handler runs on the tables as they are.
Begin(c, username, dt) ==
  /\ txn[c].state = "idle"
  /\ ops < MaxRuns
  /\ ops' = ops + 1
  /\ now' = now + dt
  /\ txn' = [txn EXCEPT ![c] = Running(Args(ConcDevice, username, DefaultProfile),
                                       now + dt, 1)]
  /\ UNCHANGED <<savedAccounts, users, nextId, seenDevices, last>>
  /\ UNCHANGED <<userActivity, chatVars, clientVars>>

\* The execution's writes are committed.
Commit(c) ==
  LET t == txn[c]
      done == Committed(savedAccounts, users,
                        SaveAccountWrites(t.saved, t.users, t.args, t.time), nextId)
  IN /\ t.state = "running"
     /\ Validate(t)
     /\ savedAccounts' = done.savedAccounts
     /\ users' = done.users
     /\ nextId' = done.nextId
     /\ seenDevices' = seenDevices \cup {t.args.deviceId}
     /\ last' = [op |-> "saveAccount", args |-> t.args, time |-> t.time,
                 path |-> SaveAccountPath(t.saved, t.args),
                 threw |-> done.threw, runs |-> t.runs, lost |-> Lost(t),
                 prevSaved |-> savedAccounts, prevUsers |-> users,
                 prevId |-> nextId,
                 recent |-> IF done.threw THEN Recent
                            ELSE (t.args.deviceId :> t.args.username) @@ Recent]
     /\ txn' = [txn EXCEPT ![c] = Idle]
     /\ UNCHANGED <<now, ops, userActivity, chatVars, clientVars>>

\* What the execution read has changed: the handler is run again.
Retry(c, dt) ==
  /\ txn[c].state = "running"
  /\ ~Validate(txn[c])
  /\ ops < MaxRuns
  /\ ops' = ops + 1
  /\ now' = now + dt
  /\ txn' = [txn EXCEPT ![c] =
               [Running(txn[c].args, now + dt, txn[c].runs + 1)
                  EXCEPT !.lost = Lost(txn[c])]]
  /\ UNCHANGED <<savedAccounts, users, nextId, seenDevices, last>>
  /\ UNCHANGED <<userActivity, chatVars, clientVars>>

NextConc ==
  \E c \in Clients :
    \/ \E username \in Usernames, dt \in LaterMs : Begin(c, username, dt)
    \/ Commit(c)
    \/ \E dt \in LaterMs : Retry(c, dt)

SpecConc == Init /\ [][NextConc]_vars

\* The accounts of a device that holds three: alice, bob and carol, saved in
\* this order one millisecond apart.
SeedUsernames == <<"alice", "bob", "carol">>

RECURSIVE Seeded(_)
Seeded(k) ==
  IF k = 0 THEN [savedAccounts |-> <<>>, users |-> <<>>, nextId |-> 1]
  ELSE LET before == Seeded(k - 1) IN
       Committed(before.savedAccounts, before.users,
                 SaveAccountWrites(before.savedAccounts, before.users,
                                   Args(ConcDevice, SeedUsernames[k], DefaultProfile),
                                   k),
                 before.nextId)

----------------------------------------------------------------------------
(* messages: send and list *)

\* .take(100) of list
ListLimit == 100

MaxSends == 102

Senders == {"alice", "bob"}

\* The document send inserts.
NewMessage(args, t) ==
  [text |-> args.text, username |-> args.username, color |-> args.color,
   timestamp |-> t, delivered |-> TRUE, readBy |-> <<>>]

\* Faulty variant: the window is returned newest first
ListNewestFirst(table) == Take(Reverse(table), ListLimit)

\* list: .order("desc").take(100), then .reverse()
List(table) == Reverse(Take(Reverse(table), ListLimit))

Send(text, username, color, dt) ==
  LET args == [text |-> text, username |-> username, color |-> color] IN
  /\ Len(messages) < MaxSends
  /\ messages' = DbInsert(messages, [id |-> nextId] @@ NewMessage(args, now + dt))
  /\ nextId' = nextId + 1
  /\ now' = now + dt
  /\ last' = [op |-> "send", args |-> args, threw |-> FALSE, result |-> nextId,
              prevMessages |-> messages, recent |-> Recent]
  /\ UNCHANGED <<savedAccounts, users, userActivity, typing, ops, seenDevices,
                 txn, clientVars>>

ListCall ==
  /\ last' = [op |-> "list", args |-> <<>>, threw |-> FALSE,
              result |-> List(messages), prevMessages |-> messages,
              recent |-> Recent]
  /\ UNCHANGED <<savedAccounts, users, userActivity, chatVars, now, nextId, ops,
                 seenDevices, txn, clientVars>>

\* The sender whose turn it is after n messages.
Turn(n) == IF n % 2 = 0 THEN "alice" ELSE "bob"

\* Messages sent in turns, one millisecond apart, and listed.
NextList ==
  \/ \E dt \in LaterMs : Send("hi", Turn(Len(messages)), "#000000", dt)
  \/ ListCall

SpecList == Init /\ [][NextList]_vars

----------------------------------------------------------------------------
(* messages: editMessage and deleteMessage *)

MaxMessages == 2

\* The ids the callers pass: those of the messages and one of no message.
MessageIds == 1 .. MaxMessages + 1

\* ctx.db.get(id)
DbGet(table, id) == SelectSeq(table, LAMBDA doc : doc.id = id)

Thrown(error) ==
  [threw |-> TRUE, error |-> error, writes |-> <<>>, result |-> FALSE]

\* return true, after the writes
Returned(writes) ==
  [threw |-> FALSE, error |-> "", writes |-> writes, result |-> TRUE]

\* Faulty variant: the message is edited whoever the caller is
EditMessageByAnyone(table, args) ==
  IF DbGet(table, args.messageId) = <<>> THEN Thrown("Message not found")
  ELSE Returned(<<Write("messages", "patch", args.messageId,
                        [text |-> args.newText, edited |-> TRUE])>>)

\* The handler of editMessage.
EditMessageHandler(table, args) ==
  LET message == DbGet(table, args.messageId) IN
  IF message = <<>> THEN Thrown("Message not found")
  ELSE IF message[1].username # args.username
    THEN Thrown("You can only edit your own messages")
  ELSE Returned(<<Write("messages", "patch", args.messageId,
                        [text |-> args.newText, edited |-> TRUE])>>)

\* Faulty variant: the message is removed from the table
DeleteMessageRemoving(table, args) ==
  LET message == DbGet(table, args.messageId) IN
  IF message = <<>> THEN Thrown("Message not found")
  ELSE IF message[1].username # args.username
    THEN Thrown("You can only delete your own messages")
  ELSE Returned(<<Write("messages", "delete", args.messageId, <<>>)>>)

\* The handler of deleteMessage.
DeleteMessageHandler(table, args) ==
  LET message == DbGet(table, args.messageId) IN
  IF message = <<>> THEN Thrown("Message not found")
  ELSE IF message[1].username # args.username
    THEN Thrown("You can only delete your own messages")
  ELSE Returned(<<Write("messages", "patch", args.messageId, [deleted |-> TRUE])>>)

\* One call of a mutation of messages: its outcome, and the table before it.
MessageCall(op, args, outcome) ==
  /\ messages' = IF outcome.threw THEN messages
                 ELSE ApplyWrites("messages", messages, outcome.writes, nextId)[1]
  /\ last' = [op |-> op, args |-> args, threw |-> outcome.threw,
              error |-> outcome.error, result |-> outcome.result,
              prevMessages |-> messages, recent |-> Recent]
  /\ UNCHANGED <<savedAccounts, users, userActivity, typing, now, nextId, ops,
                 seenDevices, txn, clientVars>>

EditMessage(messageId, newText, username) ==
  LET args == [messageId |-> messageId, newText |-> newText, username |-> username]
  IN MessageCall("editMessage", args, EditMessageHandler(messages, args))

DeleteMessage(messageId, username) ==
  LET args == [messageId |-> messageId, username |-> username]
  IN MessageCall("deleteMessage", args, DeleteMessageHandler(messages, args))

NextMessages ==
  \/ \E username \in Senders, dt \in LaterMs :
       Len(messages) < MaxMessages /\ Send("hi", username, "#000000", dt)
  \/ \E messageId \in MessageIds, username \in Senders :
       EditMessage(messageId, "yo", username)
  \/ \E messageId \in MessageIds, username \in Senders :
       DeleteMessage(messageId, username)

SpecMessages == Init /\ [][NextMessages]_vars

----------------------------------------------------------------------------
(* messages: reactToMessage *)

\* The reactions the callers make: a user and an emoji.
Reactions ==
  { [user |-> "alice", emoji |-> "+1"], [user |-> "alice", emoji |-> "heart"],
    [user |-> "bob", emoji |-> "+1"], [user |-> "carol", emoji |-> "heart"] }

\* message.reactions || []
ReactionsOf(message) ==
  IF "reactions" \in DOMAIN message THEN message.reactions ELSE <<>>

\* Faulty variant: the reaction is appended and the user's previous one is kept
ReactToMessageKeeping(table, args) ==
  LET message == DbGet(table, args.messageId) IN
  IF message = <<>> THEN Thrown("Message not found")
  ELSE Returned(<<Write("messages", "patch", args.messageId,
                        [reactions |->
                           Append(ReactionsOf(message[1]),
                                  [user |-> args.user, emoji |-> args.emoji])])>>)

\* The handler of reactToMessage.
ReactToMessageHandler(table, args) ==
  LET message == DbGet(table, args.messageId) IN
  IF message = <<>> THEN Thrown("Message not found")
  ELSE LET reactions == ReactionsOf(message[1])
           filtered == SelectSeq(reactions, LAMBDA r : r.user # args.user)
       IN Returned(<<Write("messages", "patch", args.messageId,
                           [reactions |->
                              Append(filtered,
                                     [user |-> args.user, emoji |-> args.emoji])])>>)

ReactToMessage(messageId, user, emoji) ==
  LET args == [messageId |-> messageId, user |-> user, emoji |-> emoji]
  IN MessageCall("reactToMessage", args, ReactToMessageHandler(messages, args))

NextReactions ==
  \/ \E dt \in LaterMs :
       Len(messages) < MaxMessages /\ Send("hi", "alice", "#000000", dt)
  \/ \E messageId \in MessageIds, r \in Reactions :
       ReactToMessage(messageId, r.user, r.emoji)

SpecReactions == Init /\ [][NextReactions]_vars

----------------------------------------------------------------------------
(* messages: markRead, markDelivered and searchMessages.  A text that is    *)
(* searched is a sequence of characters.                                    *)

\* message.readBy || []
ReadByOf(message) == IF "readBy" \in DOMAIN message THEN message.readBy ELSE <<>>

\* readBy.includes(username)
Includes(list, x) == \E i \in DOMAIN list : list[i] = x

\* Faulty variant: the username is pushed whether or not the list holds it
MarkReadPushing(table, args) ==
  LET message == DbGet(table, args.messageId) IN
  IF message = <<>> THEN [Returned(<<>>) EXCEPT !.result = FALSE]
  ELSE Returned(<<Write("messages", "patch", args.messageId,
                        [readBy |-> Append(ReadByOf(message[1]), args.username)])>>)

\* The handler of markRead.
MarkReadHandler(table, args) ==
  LET message == DbGet(table, args.messageId) IN
  IF message = <<>> THEN [Returned(<<>>) EXCEPT !.result = FALSE]
  ELSE IF Includes(ReadByOf(message[1]), args.username) THEN Returned(<<>>)
  ELSE Returned(<<Write("messages", "patch", args.messageId,
                        [readBy |-> Append(ReadByOf(message[1]), args.username)])>>)

\* The handler of markDelivered: the patch of a message that does not exist
\* throws.
MarkDeliveredHandler(table, args) ==
  IF DbGet(table, args.messageId) = <<>> THEN Thrown("nonexistent document")
  ELSE Returned(<<Write("messages", "patch", args.messageId, [delivered |-> TRUE])>>)

MarkRead(messageId, username) ==
  LET args == [messageId |-> messageId, username |-> username]
  IN MessageCall("markRead", args, MarkReadHandler(messages, args))

MarkDelivered(messageId) ==
  LET args == [messageId |-> messageId]
  IN MessageCall("markDelivered", args, MarkDeliveredHandler(messages, args))

\* The capitals of the texts and their lower case.
LowerCase == [H |-> "h", I |-> "i", Y |-> "y", O |-> "o"]

\* .toLowerCase()
ToLowerCase(text) ==
  [i \in DOMAIN text |->
     IF text[i] \in DOMAIN LowerCase THEN LowerCase[text[i]] ELSE text[i]]

\* text.includes(part)
TextIncludes(text, part) ==
  \E i \in 1 .. Len(text) + 1 :
    /\ i + Len(part) - 1 <= Len(text)
    /\ SubSeq(text, i, i + Len(part) - 1) = part

IsDeleted(message) == "deleted" \in DOMAIN message /\ message.deleted

\* Faulty variant: the deleted messages are searched too
SearchMessagesWithDeleted(table, query) ==
  SelectSeq(table, LAMBDA m : TextIncludes(ToLowerCase(m.text), ToLowerCase(query)))

\* searchMessages
SearchMessages(table, query) ==
  SelectSeq(table, LAMBDA m :
              /\ ~IsDeleted(m)
              /\ TextIncludes(ToLowerCase(m.text), ToLowerCase(query)))

SearchMessagesCall(query) ==
  /\ last' = [op |-> "searchMessages", args |-> [query |-> query],
              threw |-> FALSE, result |-> SearchMessages(messages, query),
              prevMessages |-> messages, recent |-> Recent]
  /\ UNCHANGED <<savedAccounts, users, userActivity, chatVars, now, nextId, ops,
                 seenDevices, txn, clientVars>>

\* The texts sent and edited to, and the queries searched.
SentText == <<"H", "i">>

EditedText == <<"y", "o">>

Queries == {<<"h", "I">>, <<"Y">>, <<>>}

\* alice sends; alice and bob edit, delete, react, mark and search.
NextDeleted ==
  \/ \E dt \in LaterMs :
       Len(messages) < MaxMessages /\ Send(SentText, "alice", "#000000", dt)
  \/ \E messageId \in MessageIds, username \in Senders :
       EditMessage(messageId, EditedText, username)
  \/ \E messageId \in MessageIds, username \in Senders :
       DeleteMessage(messageId, username)
  \/ \E messageId \in MessageIds : ReactToMessage(messageId, "bob", "+1")
  \/ \E messageId \in MessageIds : MarkRead(messageId, "bob")
  \/ \E messageId \in MessageIds : MarkDelivered(messageId)
  \/ \E query \in Queries : SearchMessagesCall(query)

SpecDeleted == Init /\ [][NextDeleted]_vars

\* Messages marked as read by alice and by bob.
NextRead ==
  \/ \E dt \in LaterMs :
       Len(messages) < MaxMessages /\ Send(SentText, "alice", "#000000", dt)
  \/ \E messageId \in MessageIds, username \in Senders :
       MarkRead(messageId, username)

SpecRead == Init /\ [][NextRead]_vars

----------------------------------------------------------------------------
(* typing: setTyping and getTypingUsers *)

\* now - t.timestamp < 5000
TypingWindow == 5000

\* How far the clock moves between two calls: a millisecond, or one short
\* of the window.
TypingMs == {1, TypingWindow - 1}

TypingOf(table, username) ==
  Take(SelectSeq(table, LAMBDA doc : doc.username = username), 1)

\* Faulty variant: a record is inserted without looking for an existing one
SetTypingInserting(table, args, t) ==
  IF args.isTyping
  THEN <<Write("typing", "insert", 0, [username |-> args.username, timestamp |-> t])>>
  ELSE IF TypingOf(table, args.username) # <<>>
    THEN <<Write("typing", "delete", TypingOf(table, args.username)[1].id, <<>>)>>
  ELSE <<>>

\* The writes of the handler of setTyping.
SetTypingWrites(table, args, t) ==
  LET existing == TypingOf(table, args.username) IN
  IF args.isTyping
  THEN IF existing # <<>>
       THEN <<Write("typing", "patch", existing[1].id, [timestamp |-> t])>>
       ELSE <<Write("typing", "insert", 0,
                    [username |-> args.username, timestamp |-> t])>>
  ELSE IF existing # <<>>
       THEN <<Write("typing", "delete", existing[1].id, <<>>)>>
       ELSE <<>>

\* Faulty variant: a record as old as the window is still reported
GetTypingUsersInclusive(table, t) ==
  SelectSeq(table, LAMBDA doc : t - doc.timestamp <= TypingWindow)

\* getTypingUsers run at time t.
GetTypingUsers(table, t) ==
  SelectSeq(table, LAMBDA doc : t - doc.timestamp < TypingWindow)

SetTyping(username, isTyping, dt) ==
  LET args == [username |-> username, isTyping |-> isTyping]
      done == ApplyWrites("typing", typing, SetTypingWrites(typing, args, now + dt),
                          nextId)
  IN /\ ops < MaxOps
     /\ ops' = ops + 1
     /\ now' = now + dt
     /\ typing' = done[1]
     /\ nextId' = done[2]
     /\ last' = [op |-> "setTyping", args |-> args, time |-> now + dt,
                 threw |-> done[3], prevTyping |-> typing, recent |-> Recent]
     /\ UNCHANGED <<savedAccounts, users, userActivity, messages, seenDevices,
                    txn, clientVars>>

GetTypingUsersCall(dt) ==
  /\ ops < MaxOps
  /\ ops' = ops + 1
  /\ now' = now + dt
  /\ last' = [op |-> "getTypingUsers", args |-> <<>>, time |-> now + dt,
              threw |-> FALSE, result |-> GetTypingUsers(typing, now + dt),
              prevTyping |-> typing, recent |-> Recent]
  /\ UNCHANGED <<savedAccounts, users, userActivity, chatVars, nextId,
                 seenDevices, txn, clientVars>>

NextTyping ==
  \/ \E username \in Senders, isTyping \in BOOLEAN, dt \in TypingMs :
       SetTyping(username, isTyping, dt)
  \/ \E dt \in TypingMs : GetTypingUsersCall(dt)

SpecTyping == Init /\ [][NextTyping]_vars

----------------------------------------------------------------------------
(* The chat component of a client.  Its states (useState) keep what the     *)
(* handlers set.  A mutation it calls is sent over the connection of the    *)
(* client; the server runs the mutations of a client in the order of the    *)
(* calls, each as a transaction of its own and at its own time.  A query    *)
(* (useQuery) holds no result while it is loading and otherwise the result  *)
(* of an earlier state of the tables, until the next is delivered.  A       *)
(* handler that awaits a call goes on when the call has resolved, with the  *)
(* values of the render it was called in.  There are two versions of the    *)
(* component: the one whose form saves an account, and the one whose form   *)
(* enters the chat.                                                         *)

MaxChanges == 2

\* getUser: the user of a username, or none.
GetUser(table, username) == UserOf(table, username)

\* checkUsername
CheckUsername(table, username) == [isTaken |-> UserOf(table, username) # <<>>]

\* getDeviceId: the id the browser of the client keeps in its localStorage.
DeviceOf(c) == IF c = "c1" THEN "D1" ELSE "D2"

\* A username of white space only.
Spaces == " "

\* username.trim(), for the usernames typed: white space only, or none.
Trim(username) == IF username = Spaces THEN "" ELSE username

\* deviceId || ""
DeviceIdOrBlank(component) ==
  IF component.deviceId = Null THEN "" ELSE component.deviceId

\* value || fallback, of a string
OrElse(value, fallback) == IF value \in {"", Undefined} THEN fallback ELSE value

\* userInfo?.preferences || {}
PreferencesOf(component) ==
  IF component.userInfo = <<>> THEN NoPreferences
  ELSE component.userInfo[1].preferences

\* { ...userInfo?.preferences, ...preferences }
Spread(base, preferences) == preferences @@ base

\* The component of a client once its mount effect has loaded the device id.
Mounted(c, version) ==
  [NoInput EXCEPT !.version = version, !.deviceId = DeviceOf(c)]

\* A call of a mutation by a component that awaits nothing after it.
Mutation(op, args) == [op |-> op, args |-> args, then |-> <<>>]

\* A call of a mutation, and what the handler that awaits it does when it
\* has resolved: the states it sets and the calls it makes next.
Awaited(op, args, set, calls) ==
  [op |-> op, args |-> args, then |-> <<[set |-> set, calls |-> calls]>>]

\* What waits for a call that has resolved: the rest of the handler.
Pending(await, set, calls) == [await |-> await, set |-> set, calls |-> calls]

\* The effect on [isUsernameSet, userInfo]: the color and the status are
\* taken from the user the query holds.
Loaded(component) ==
  IF component.isUsernameSet /\ component.userInfo # <<>>
  THEN [component EXCEPT
          !.userColor = OrElse(component.userInfo[1].color, "#000000"),
          !.userStatus = OrElse(component.userInfo[1].status, "")]
  ELSE component

\* The argument of the checkUsername query of a component.
CheckedName(version, username) ==
  IF version = ChatVersion THEN Trim(username) ELSE username

\* setUsername: the queries on the username are loading again when their
\* argument has changed.
Renamed(component, username) ==
  IF username = component.username THEN component
  ELSE [component EXCEPT
          !.username = username,
          !.userInfo = <<>>,
          !.checkUsername =
             IF CheckedName(component.version, username)
                  = CheckedName(component.version, component.username)
             THEN @ ELSE <<>>]

\* The presence effect on [username]: its cleanup calls updatePresence for
\* the previous username; the effect of the form that saves the account
\* calls it for the new one.  if (username): none for "".
PresenceCalls(version, previous, username) ==
  IF username = previous THEN <<>>
  ELSE (IF previous # ""
          THEN <<Mutation("updatePresence",
                          [username |-> previous, isOnline |-> FALSE])>>
          ELSE <<>>)
       \o (IF version = SaveVersion /\ username # ""
             THEN <<Mutation("updatePresence",
                             [username |-> username, isOnline |-> TRUE])>>
             ELSE <<>>)

\* An event of the component of client c: the states it is left in and the
\* mutations it calls, which wait for the server.
Event(c, component, calls, record) ==
  /\ calls # <<>> => ops < MaxChanges
  /\ ops' = IF calls # <<>> THEN ops + 1 ELSE ops
  /\ ui' = [ui EXCEPT ![c] = component]
  /\ outbox' = [outbox EXCEPT ![c] = @ \o calls]
  /\ last' = record
  /\ UNCHANGED <<savedAccounts, users, userActivity, chatVars, now, nextId,
                 seenDevices, txn, inbox>>

\* The mount effect has run: it runs after the first render, before any
\* event of the user or of a subscription.
MountEffectRan(c) == ui[c].deviceId # Null

\* The mount effect: const id = getDeviceId(); if (id) setDeviceId(id).  The
\* queries on the device id are loading again.
LoadDeviceId(c) ==
  /\ ui[c].deviceId = Null
  /\ Event(c, [ui[c] EXCEPT !.deviceId = DeviceOf(c), !.accountCount = <<>>,
                            !.savedAccounts = <<>>],
           <<>>, last)

\* The writes of a mutation of users called by a component, run at time t.
MutationWrites(call, saved, usrs, t) ==
  CASE call.op = "saveAccount" -> SaveAccountWrites(saved, usrs, call.args, t)
    [] call.op = "updatePresence" -> UpdatePresenceWrites(usrs, call.args, t)
    [] call.op = "updatePreferences" -> UpdatePreferencesWrites(usrs, call.args, t)
    [] call.op = "updateStatus" -> UpdateStatusWrites(usrs, call.args, t)
    [] call.op = "updateAppearance" -> UpdateAppearanceWrites(usrs, call.args, t)
    [] call.op = "updateAvatar" -> UpdateAvatarWrites(usrs, call.args, t)
    [] OTHER -> <<>>

\* The outcome of a mutation of messages called by a component.
MessageOutcome(call, table, t) ==
  CASE call.op = "send" ->
         Returned(<<Write("messages", "insert", 0, NewMessage(call.args, t))>>)
    [] call.op = "editMessage" -> EditMessageHandler(table, call.args)
    [] call.op = "deleteMessage" -> DeleteMessageHandler(table, call.args)
    [] call.op = "reactToMessage" -> ReactToMessageHandler(table, call.args)
    [] OTHER -> Returned(<<>>)

\* The server runs the first waiting mutation of client c, the clock having
\* moved by dt: one transaction.  When it has not thrown, its answer is on
\* the way to the handler that awaits it.
Deliver(c, dt) ==
  /\ outbox[c] # <<>>
  /\ LET call == Head(outbox[c])
         t == now + dt
         saves == call.op = "saveAccount"
         outcome == MessageOutcome(call, messages, t)
         writes == MutationWrites(call, savedAccounts, users, t) \o outcome.writes
         rs == ApplyWrites("savedAccounts", savedAccounts, writes, nextId)
         ru == ApplyWrites("users", users, writes, rs[2])
         ra == ApplyWrites("userActivity", userActivity, writes, ru[2])
         rm == ApplyWrites("messages", messages, writes, ra[2])
         threw == outcome.threw \/ rs[3] \/ ru[3] \/ ra[3] \/ rm[3]
     IN /\ savedAccounts' = IF threw THEN savedAccounts ELSE rs[1]
        /\ users' = IF threw THEN users ELSE ru[1]
        /\ userActivity' = IF threw THEN userActivity ELSE ra[1]
        /\ messages' = IF threw THEN messages ELSE rm[1]
        /\ nextId' = IF threw THEN nextId ELSE rm[2]
        /\ now' = t
        /\ seenDevices' = IF saves THEN seenDevices \cup {call.args.deviceId}
                          ELSE seenDevices
        /\ outbox' = [outbox EXCEPT ![c] = Tail(@)]
        /\ inbox' = [inbox EXCEPT
                       ![c] = IF threw \/ call.then = <<>> THEN @
                              ELSE Append(@, Pending("mutation", call.then[1].set,
                                                     call.then[1].calls))]
        /\ last' = [op |-> call.op, client |-> c, args |-> call.args, time |-> t,
                    path |-> IF saves THEN SaveAccountPath(savedAccounts, call.args)
                             ELSE "none",
                    threw |-> threw, runs |-> 1, prevSaved |-> savedAccounts,
                    prevUsers |-> users, prevActivity |-> userActivity,
                    prevId |-> nextId,
                    recent |-> IF saves /\ ~threw
                               THEN (call.args.deviceId :> call.args.username)
                                    @@ Recent
                               ELSE Recent]
        /\ UNCHANGED <<typing, ops, txn, ui>>

\* The rest of a handler runs: it sets its states and makes its next calls.
Continue(c, i) ==
  /\ ui' = [ui EXCEPT ![c] = inbox[c][i].set @@ @]
  /\ outbox' = [outbox EXCEPT ![c] = @ \o inbox[c][i].calls]
  /\ inbox' = [inbox EXCEPT ![c] = SubSeq(@, 1, i - 1) \o SubSeq(@, i + 1, Len(@))]
  /\ UNCHANGED <<savedAccounts, users, userActivity, chatVars, now, nextId,
                 ops, seenDevices, last, txn>>

\* The answer of a mutation has come back, the answers in the order of the
\* calls: the handler that awaited it goes on.
Resolve(c) ==
  \E i \in DOMAIN inbox[c] :
    /\ inbox[c][i].await = "mutation"
    /\ \A j \in 1 .. i - 1 : inbox[c][j].await # "mutation"
    /\ Continue(c, i)

\* The result of a query of a component on the tables as they are.
QueryResult(component, query) ==
  CASE query = "checkUsername" ->
         <<CheckUsername(users, CheckedName(component.version, component.username))>>
    [] query = "accountCount" ->
         <<GetAccountCount(savedAccounts, DeviceIdOrBlank(component))>>
    [] query = "savedAccounts" ->
         <<GetSavedAccounts(savedAccounts, DeviceIdOrBlank(component))>>
    [] query = "userInfo" -> GetUser(users, component.username)

\* A subscription delivers a new result of its query, that on the tables as
\* they are; the effect on userInfo runs when it is the user that changed.
QueryUpdate(c, query) ==
  LET result == QueryResult(ui[c], query)
      held == [ui[c] EXCEPT ![query] = result]
  IN /\ MountEffectRan(c)
     /\ ui[c][query] # result
     /\ ui' = [ui EXCEPT ![c] = IF query = "userInfo" THEN Loaded(held) ELSE held]
     /\ UNCHANGED <<savedAccounts, users, userActivity, chatVars, now, nextId,
                    ops, seenDevices, last, txn, outbox, inbox>>

\* The components of the clients as they start, on tables that calls of
\* saveAccount have left at time t.
Started(seed, t, components) ==
  /\ savedAccounts = seed.savedAccounts
  /\ users = seed.users
  /\ nextId = seed.nextId
  /\ now = t
  /\ seenDevices = {seed.savedAccounts[i].deviceId : i \in DOMAIN seed.savedAccounts}
  /\ userActivity = <<>>
  /\ messages = <<>>
  /\ typing = <<>>
  /\ ui = components
  /\ outbox = [c \in Clients |-> <<>>]
  /\ inbox = [c \in Clients |-> <<>>]
  /\ ops = 0
  /\ last = NoCall
  /\ txn = [c \in Clients |-> Idle]

\* loadAccount, on an account of the list the component holds: the states
\* are set from the account, and the presence effect runs when the username
\* has changed.  The earlier version keeps the avatar too.
LoadAccount(c, account) ==
  LET component == ui[c]
      set == [Renamed(component, account.username) EXCEPT
                !.userColor = account.color,
                !.userStatus = account.status,
                !.avatar = IF component.version = SaveVersion
                           THEN OrElse(AvatarOf(account), "") ELSE @,
                !.isUsernameSet = TRUE]
  IN Event(c, Loaded(set),
           PresenceCalls(component.version, component.username, account.username),
           last)

----------------------------------------------------------------------------
(* The chat screen of the two versions of the component, shown once the     *)
(* username is set: the settings panel and the messages.  The handlers of   *)
(* the version whose form saves an account call saveAccount when their      *)
(* first call has resolved.  The messages a client sees are its own, so the *)
(* effect that marks the messages of others as read does not run.           *)

\* What the user sets in the settings panel: a switch, a status, a color.
PickedPreferences == [notifications |-> FALSE]

\* The arguments of the saveAccount call of a settings handler.
ChangeArgs(component, color, status, avatar, preferences) ==
  [deviceId |-> DeviceIdOrBlank(component), username |-> component.username,
   color |-> color, status |-> status, avatar |-> avatar,
   preferences |-> preferences]

HandlePreferencesChange(c, preferences) ==
  LET component == ui[c]
      merged == Spread(PreferencesOf(component), preferences)
  IN /\ component.version = SaveVersion
     /\ component.isUsernameSet
     /\ Event(c, component,
              <<Awaited("updatePreferences",
                        [username |-> component.username, preferences |-> merged],
                        <<>>,
                        <<Mutation("saveAccount",
                                   ChangeArgs(component, component.userColor,
                                              component.userStatus,
                                              component.avatar, merged))>>)>>,
              last)

HandlePreferencesChangeChat(c, preferences) ==
  LET component == ui[c] IN
  /\ component.version = ChatVersion
  /\ component.isUsernameSet
  /\ Event(c, component,
           <<Mutation("updatePreferences",
                      [username |-> component.username,
                       preferences |-> preferences])>>,
           last)

HandleStatusChange(c, status) ==
  LET component == ui[c] IN
  /\ component.version = SaveVersion
  /\ component.isUsernameSet
  /\ Event(c, component,
           <<Awaited("updateStatus",
                     [username |-> component.username, status |-> status],
                     [userStatus |-> status],
                     <<Mutation("saveAccount",
                                ChangeArgs(component, component.userColor, status,
                                           component.avatar,
                                           PreferencesOf(component)))>>)>>,
           last)

HandleStatusChangeChat(c, status) ==
  LET component == ui[c] IN
  /\ component.version = ChatVersion
  /\ component.isUsernameSet
  /\ Event(c, component,
           <<Awaited("updateStatus",
                     [username |-> component.username, status |-> status],
                     [userStatus |-> status], <<>>)>>,
           last)

HandleColorChange(c, color) ==
  LET component == ui[c] IN
  /\ component.version = SaveVersion
  /\ component.isUsernameSet
  /\ Event(c, component,
           <<Awaited("updateAppearance",
                     [username |-> component.username, color |-> color],
                     [userColor |-> color],
                     <<Mutation("saveAccount",
                                ChangeArgs(component, color, component.userStatus,
                                           component.avatar,
                                           PreferencesOf(component)))>>)>>,
           last)

HandleColorChangeChat(c, color) ==
  LET component == ui[c] IN
  /\ component.version = ChatVersion
  /\ component.isUsernameSet
  /\ Event(c, component,
           <<Awaited("updateAppearance",
                     [username |-> component.username, color |-> color],
                     [userColor |-> color], <<>>)>>,
           last)

\* A file is picked: the handler awaits compressImage(file).
Picked(c, calls) ==
  /\ ui[c].isUsernameSet
  /\ ops < MaxChanges
  /\ ops' = ops + 1
  /\ inbox' = [inbox EXCEPT ![c] = Append(@, Pending("compressImage", <<>>, calls))]
  /\ UNCHANGED <<savedAccounts, users, userActivity, chatVars, now, nextId,
                 seenDevices, last, txn, ui, outbox>>

\* With the compressed image the handler calls updateAvatar, sets the avatar
\* and, if (deviceId), calls saveAccount.
HandleAvatarChange(c, compressedImage) ==
  LET component == ui[c] IN
  /\ component.version = SaveVersion
  /\ Picked(c, <<Awaited("updateAvatar",
                         [username |-> component.username,
                          avatar |-> compressedImage],
                         [avatar |-> compressedImage],
                         IF component.deviceId \in {Null, ""} THEN <<>>
                         ELSE <<Mutation("saveAccount",
                                         ChangeArgs(component, component.userColor,
                                                    component.userStatus,
                                                    compressedImage,
                                                    PreferencesOf(component)))>>)>>)

HandleAvatarChangeChat(c, compressedImage) ==
  LET component == ui[c] IN
  /\ component.version = ChatVersion
  /\ Picked(c, <<Mutation("updateAvatar",
                          [username |-> component.username,
                           avatar |-> compressedImage])>>)

\* compressImage has resolved, and the handler goes on, or it has rejected,
\* and the handler ends in its catch.
Compressed(c, resolved) ==
  \E i \in DOMAIN inbox[c] :
    /\ inbox[c][i].await = "compressImage"
    /\ IF resolved THEN Continue(c, i)
       ELSE /\ inbox' = [inbox EXCEPT ![c] =
                             SubSeq(@, 1, i - 1) \o SubSeq(@, i + 1, Len(@))]
            /\ UNCHANGED <<savedAccounts, users, userActivity, chatVars, now,
                           nextId, ops, seenDevices, last, txn, ui, outbox>>

\* The message form is submitted with a text that is not blank.
HandleSendMessage(c, text) ==
  LET component == ui[c] IN
  /\ component.isUsernameSet
  /\ Event(c, component,
           <<Mutation("send",
                      [text |-> text, username |-> component.username,
                       color |-> OrElse(component.userColor, "#000000")])>>,
           last)

\* The messages of the username of the component, isSelf, which show the
\* Edit and Delete buttons.
OwnMessages(component) ==
  {messages[i].id : i \in {j \in DOMAIN messages :
                             messages[j].username = component.username}}

\* The edit form of an own message is submitted.
HandleEdit(c, messageId, newText) ==
  /\ ui[c].isUsernameSet
  /\ messageId \in OwnMessages(ui[c])
  /\ Event(c, ui[c],
           <<Mutation("editMessage",
                      [messageId |-> messageId, newText |-> newText,
                       username |-> ui[c].username])>>,
           last)

\* The Delete button of an own message.
HandleDelete(c, messageId) ==
  /\ ui[c].isUsernameSet
  /\ messageId \in OwnMessages(ui[c])
  /\ Event(c, ui[c],
           <<Mutation("deleteMessage",
                      [messageId |-> messageId, username |-> ui[c].username])>>,
           last)

\* An emoji of the reactions of a message.
HandleReact(c, messageId, emoji) ==
  /\ ui[c].isUsernameSet
  /\ messageId \in {messages[i].id : i \in DOMAIN messages}
  /\ Event(c, ui[c],
           <<Mutation("reactToMessage",
                      [messageId |-> messageId, user |-> ui[c].username,
                       emoji |-> emoji])>>,
           last)

\* The events of the chat screen of client c.
ChatScreen(c) ==
  \/ HandlePreferencesChange(c, PickedPreferences)
  \/ HandlePreferencesChangeChat(c, PickedPreferences)
  \/ HandleStatusChange(c, NewStatus)
  \/ HandleStatusChangeChat(c, NewStatus)
  \/ HandleColorChange(c, NewColor)
  \/ HandleColorChangeChat(c, NewColor)
  \/ HandleAvatarChange(c, NewAvatar)
  \/ HandleAvatarChangeChat(c, NewAvatar)
  \/ \E resolved \in BOOLEAN : Compressed(c, resolved)
  \/ HandleSendMessage(c, "hi")
  \/ \E messageId \in 1 .. nextId : HandleEdit(c, messageId, "yo")
  \/ \E messageId \in 1 .. nextId : HandleDelete(c, messageId)
  \/ \E messageId \in 1 .. nextId : HandleReact(c, messageId, "+1")

----------------------------------------------------------------------------
(* The username form of the two versions of the component.                  *)

\* usernameCheck?.isTaken
IsTaken(input) == input.checkUsername # <<>> /\ input.checkUsername[1].isTaken

\* count && count.count >= count.maxAccounts
LimitSeen(input) ==
  /\ input.accountCount # <<>>
  /\ input.accountCount[1].count >= input.accountCount[1].maxAccounts

\* Faulty variant: the button that submits the form is never disabled
SubmitEnabledAlways(input) == TRUE

\* disabled={accountCount ? accountCount.count >= accountCount.maxAccounts
\* : false}, of the button that submits the form
SubmitEnabled(input) == ~LimitSeen(input)

\* onChange of the username input of the form that saves the account.
SetUsername(c, username) ==
  /\ MountEffectRan(c)
  /\ ui[c].version = SaveVersion
  /\ ~ui[c].isUsernameSet
  /\ username # ui[c].username
  /\ Event(c, Renamed(ui[c], username),
           PresenceCalls(SaveVersion, ui[c].username, username), last)

\* onChange of the username input of the form that enters the chat.
SetUsernameChat(c, username) ==
  /\ MountEffectRan(c)
  /\ ui[c].version = ChatVersion
  /\ ~ui[c].isUsernameSet
  /\ username # ui[c].username
  /\ Event(c, Renamed(ui[c], username),
           PresenceCalls(ChatVersion, ui[c].username, username), last)

\* setInterval(..., 30000)
PresenceIntervalMs == 30000

\* The interval of the presence effect of the form that enters the chat
\* fires: updatePresence for the username the component holds.
PresenceInterval(c) ==
  /\ ui[c].version = ChatVersion
  /\ ui[c].username # ""
  /\ ops < MaxChanges
  /\ ops' = ops + 1
  /\ now' = now + PresenceIntervalMs
  /\ outbox' = [outbox EXCEPT
                  ![c] = Append(@, Mutation("updatePresence",
                                            [username |-> ui[c].username,
                                             isOnline |-> TRUE]))]
  /\ UNCHANGED <<savedAccounts, users, userActivity, chatVars, nextId,
                 seenDevices, last, txn, ui, inbox>>

\* The branch handleSetUsername takes on what the component holds.
SetUsernameOutcome(input) ==
  IF Trim(input.username) = "" \/ input.deviceId \in {Null, ""} THEN "blank"
  ELSE IF IsTaken(input) THEN "taken"
  ELSE IF LimitSeen(input) THEN "limit"
  ELSE "saved"

\* The form that saves the account is submitted with its button:
\* handleSetUsername runs on what the component holds.
HandleSetUsername(c) ==
  LET input == ui[c]
      outcome == SetUsernameOutcome(input)
      args == Args(DeviceIdOrBlank(input), input.username, DefaultProfile)
      calls == IF outcome = "saved" THEN <<Mutation("saveAccount", args)>>
               ELSE <<>>
  IN /\ input.version = SaveVersion
     /\ ~input.isUsernameSet
     /\ SubmitEnabled(input)
     /\ Event(c, input, calls,
              [op |-> "handleSetUsername", form |-> "save", client |-> c,
               args |-> args, outcome |-> outcome, threw |-> FALSE,
               input |-> input, sent |-> calls, prevSaved |-> savedAccounts,
               prevUsers |-> users, prevActivity |-> userActivity,
               prevId |-> nextId, recent |-> Recent])

\* The branch handleSetUsername of the form that enters the chat takes.
EnterOutcome(input) ==
  IF Trim(input.username) = "" THEN "blank"
  ELSE IF IsTaken(input) THEN "taken"
  ELSE "entered"

\* The form that enters the chat is submitted with its button.
HandleSetUsernameChat(c) ==
  LET input == ui[c]
      outcome == EnterOutcome(input)
  IN /\ input.version = ChatVersion
     /\ ~input.isUsernameSet
     /\ SubmitEnabled(input)
     /\ Event(c, Loaded([input EXCEPT !.isUsernameSet = (outcome = "entered")]),
              <<>>,
              [op |-> "handleSetUsername", form |-> "chat", client |-> c,
               args |-> [username |-> input.username], outcome |-> outcome,
               threw |-> FALSE, input |-> input, sent |-> <<>>,
               prevSaved |-> savedAccounts, prevUsers |-> users,
               prevActivity |-> userActivity, prevId |-> nextId,
               recent |-> Recent])

\* The Load button of an account of the list of saved accounts.
LoadListed(c) ==
  /\ ~ui[c].isUsernameSet
  /\ ui[c].savedAccounts # <<>>
  /\ \E i \in DOMAIN ui[c].savedAccounts[1] :
       LoadAccount(c, ui[c].savedAccounts[1][i])

\* The username the clients type.
FormUsernames == {"alice"}

\* The components of two devices, each of one of the two versions, mounted.
InitForm ==
  \E version \in [Clients -> Versions] :
    Started(Seeded(0), 0, [c \in Clients |-> Mounted(c, version[c])])

\* The forms in the first seconds of the components: the clock moves by
\* milliseconds and the 30 s interval of the presence effect has not fired.
NextForm ==
  \E c \in Clients :
    \/ \E username \in FormUsernames : SetUsername(c, username)
    \/ \E username \in FormUsernames : SetUsernameChat(c, username)
    \/ \E query \in {"checkUsername", "accountCount"} : QueryUpdate(c, query)
    \/ HandleSetUsername(c)
    \/ HandleSetUsernameChat(c)
    \/ \E dt \in LaterMs : Deliver(c, dt)

SpecForm == InitForm /\ [][NextForm]_vars

\* The form on a device that holds three accounts: the client types a
\* username that has a users record, one that has none, or white space.
FullDeviceClient == "c1"

FullDeviceUsernames == {"alice", "dave", Spaces}

\* The component of the device, of one of the two versions, at its first
\* render.
InitFormFull ==
  \E version \in Versions :
    Started(Seeded(Len(SeedUsernames)), Len(SeedUsernames),
            [c \in Clients |-> [NoInput EXCEPT !.version = version]])

\* The component of one client, over a time in which the interval fires:
\* the mount effect runs before any event, then the form, the list of saved
\* accounts and, once the username is set, the chat screen.
NextFormFull ==
  \/ LoadDeviceId(FullDeviceClient)
  \/ \E username \in FullDeviceUsernames :
       SetUsername(FullDeviceClient, username)
  \/ \E username \in FullDeviceUsernames :
       SetUsernameChat(FullDeviceClient, username)
  \/ \E query \in {"checkUsername", "accountCount", "savedAccounts",
                   "userInfo"} :
       QueryUpdate(FullDeviceClient, query)
  \/ HandleSetUsername(FullDeviceClient)
  \/ HandleSetUsernameChat(FullDeviceClient)
  \/ LoadListed(FullDeviceClient)
  \/ ChatScreen(FullDeviceClient)
  \/ PresenceInterval(FullDeviceClient)
  \/ \E dt \in LaterMs : Deliver(FullDeviceClient, dt)
  \/ Resolve(FullDeviceClient)

SpecFormFull == InitFormFull /\ [][NextFormFull]_vars

----------------------------------------------------------------------------
(* Calls during which a call to the store fails.  The handlers await every  *)
(* ctx.db call and catch nothing, so the rejection of one is the rejection  *)
(* of the handler.                                                          *)

Call(kind, table) == [kind |-> kind, table |-> table]

\* The calls saveAccount makes to the store, in order: the lookup and the
\* patch, or the lookup, the collect, the delete if any, the insert, the
\* lookup of the user and the write of the user.
SaveAccountCalls(saved, usrs, args) ==
  LET writes == SaveAccountWrites(saved, usrs, args, 0)
      calls == [i \in DOMAIN writes |-> Call(writes[i].kind, writes[i].table)]
      lookup == <<Call("query", "savedAccounts")>>
  IN IF SaveAccountPath(saved, args) = "update" THEN lookup \o calls
     ELSE lookup \o lookup \o SubSeq(calls, 1, Len(calls) - 1)
          \o <<Call("query", "users")>> \o <<calls[Len(calls)]>>

\* The one call of getSavedAccounts and of getAccountCount.
QueryCalls == <<Call("query", "savedAccounts")>>

\* Which call to the store fails, counted from 1; 0: none does.
FailPoints == 0 .. 6

\* What the store rejects the failing call with: it cannot be reached, or
\* the document a patch or a delete names is not in the table.
Causes == {"StoreUnavailable", "NotFound"}

\* The calls that name a document: ctx.db.patch and ctx.db.delete.
NamesDocument(call) == call.kind \in {"patch", "delete"}

\* Faulty variant: a failed call to the store is made once more and succeeds
RunRetrying(calls, failAt) ==
  [threw |-> FALSE,
   attempted |-> IF failAt \in DOMAIN calls
                   THEN SubSeq(calls, 1, failAt) \o SubSeq(calls, failAt, Len(calls))
                   ELSE calls]

\* The handler run with the call at failAt failing: whether it throws to the
\* caller, and the calls it has made to the store.
Run(calls, failAt) ==
  [threw |-> failAt \in DOMAIN calls,
   attempted |-> IF failAt \in DOMAIN calls THEN SubSeq(calls, 1, failAt) ELSE calls]

SaveAccountOnStore(deviceId, username, dt, failAt, cause) ==
  LET t == now + dt
      args == Args(deviceId, username, DefaultProfile)
      calls == SaveAccountCalls(savedAccounts, users, args)
      run == Run(calls, failAt)
      done == Committed(savedAccounts, users,
                        SaveAccountWrites(savedAccounts, users, args, t), nextId)
  IN /\ ops < MaxOps
     /\ failAt <= Len(calls)
     /\ cause = "NotFound" => failAt \in DOMAIN calls /\ NamesDocument(calls[failAt])
     /\ savedAccounts' = IF run.threw THEN savedAccounts ELSE done.savedAccounts
     /\ users' = IF run.threw THEN users ELSE done.users
     /\ nextId' = IF run.threw THEN nextId ELSE done.nextId
     /\ now' = t
     /\ ops' = ops + 1
     /\ seenDevices' = seenDevices \cup {deviceId}
     /\ last' = [op |-> "saveAccount", args |-> args, time |-> t,
                 path |-> SaveAccountPath(savedAccounts, args),
                 threw |-> run.threw \/ done.threw, runs |-> 1,
                 failAt |-> failAt, cause |-> cause, calls |-> calls,
                 attempted |-> run.attempted,
                 prevSaved |-> savedAccounts, prevUsers |-> users,
                 prevId |-> nextId,
                 recent |-> IF run.threw \/ done.threw THEN Recent
                            ELSE (deviceId :> username) @@ Recent]
     /\ UNCHANGED <<txn, userActivity, chatVars, clientVars>>

QueryOnStore(op, deviceId, failAt) ==
  LET run == Run(QueryCalls, failAt) IN
  /\ failAt <= Len(QueryCalls)
  /\ last' = [op |-> op, args |-> [deviceId |-> deviceId],
              result |-> IF run.threw THEN <<>>
                         ELSE IF op = "getSavedAccounts"
                           THEN <<GetSavedAccounts(savedAccounts, deviceId)>>
                           ELSE <<GetAccountCount(savedAccounts, deviceId)>>,
              threw |-> run.threw, failAt |-> failAt,
              cause |-> "StoreUnavailable", calls |-> QueryCalls,
              attempted |-> run.attempted,
              prevSaved |-> savedAccounts, prevUsers |-> users,
              prevId |-> nextId, recent |-> Recent]
  /\ UNCHANGED <<savedAccounts, users, nextId, seenDevices, now, ops, txn>>
  /\ UNCHANGED <<userActivity, chatVars, clientVars>>

NextFail ==
  \/ \E username \in Usernames, dt \in LaterMs, failAt \in FailPoints,
          cause \in Causes :
       SaveAccountOnStore(TieDevice, username, dt, failAt, cause)
  \/ \E op \in {"getSavedAccounts", "getAccountCount"}, failAt \in FailPoints :
       QueryOnStore(op, TieDevice, failAt)

SpecFail == Init /\ [][NextFail]_vars

----------------------------------------------------------------------------
(* Properties *)

AllDevices == Devices \cup BlankDevices \cup {UnseenDevice}

\* The number of saved accounts of a device, counted document by document.
CountOf(table, deviceId) ==
  Cardinality({i \in DOMAIN table : table[i].deviceId = deviceId})

HasPair(table, deviceId, username) ==
  \E i \in DOMAIN table :
    table[i].deviceId = deviceId /\ table[i].username = username

Docs(table) == {table[i] : i \in DOMAIN table}

UsernamesOf(docs) == [i \in DOMAIN docs |-> docs[i].username]

Saved == last.op = "saveAccount"

\* The last call was for a pair that had no saved account, on a device that
\* held three.
SavedNewOnFull ==
  /\ Saved
  /\ ~HasPair(last.prevSaved, last.args.deviceId, last.args.username)
  /\ CountOf(last.prevSaved, last.args.deviceId) = 3

\* The last call was for a pair that had a saved account.
SavedExisting ==
  Saved /\ HasPair(last.prevSaved, last.args.deviceId, last.args.username)

\* C1: after any sequence of saveAccount calls every device has at most 3
\* saved accounts, and getAccountCount reports at most 3.
C1_AtMostThreePerDevice ==
  \A d \in AllDevices :
    /\ CountOf(savedAccounts, d) <= 3
    /\ GetAccountCount(savedAccounts, d).count <= 3

\* A device that held three accounts saved one more and holds three.
C1_Witness ==
  /\ Saved /\ last.path = "create"
  /\ Len(AccountsOf(last.prevSaved, last.args.deviceId)) = 3
  /\ GetAccountCount(savedAccounts, last.args.deviceId).count = 3

\* C2: saveAccount calls for one device that overlap behave as if each ran
\* as a whole at its commit: the call neither throws nor leaves anything but
\* what its handler makes of the tables as they were just before the commit,
\* and the device never holds 4 accounts.
C2_OverlappingCallsAtomic ==
  /\ CountOf(savedAccounts, ConcDevice) <= 3
  /\ Saved =>
       LET whole == Committed(last.prevSaved, last.prevUsers,
                              SaveAccountWrites(last.prevSaved, last.prevUsers,
                                                last.args, last.time),
                              last.prevId)
       IN /\ ~last.threw
          /\ savedAccounts = whole.savedAccounts
          /\ users = whole.users

\* A call that found two accounts, overlapped a call that committed a third,
\* was run again and evicted: the device holds three.
C2_Witness ==
  /\ Saved /\ last.runs >= 2 /\ last.path = "create"
  /\ CountOf(last.prevSaved, ConcDevice) = 3
  /\ CountOf(savedAccounts, ConcDevice) = 3

\* C3: a device holds 3 accounts with distinct lastUsed and saves a username
\* it has not saved: exactly the account with the smallest lastUsed is
\* deleted, the other two are kept as they were, the new one is inserted.
C3_EvictsLeastRecentlyUsed ==
  LET prev == AccountsOf(last.prevSaved, last.args.deviceId) IN
  (/\ SavedNewOnFull
   /\ \A i, j \in DOMAIN prev : i # j => prev[i].lastUsed # prev[j].lastUsed)
  => \E i \in DOMAIN prev :
       /\ \A j \in DOMAIN prev : prev[i].lastUsed <= prev[j].lastUsed
       /\ Docs(savedAccounts)
            = (Docs(last.prevSaved) \ {prev[i]})
              \cup {[id |-> last.prevId] @@ NewAccount(last.args, last.time)}

\* alice, bob and carol saved in this order, then dave: dave, carol, bob.
C3_Witness ==
  /\ SavedNewOnFull
  /\ UsernamesOf(AccountsOf(last.prevSaved, "D1")) = <<"alice", "bob", "carol">>
  /\ last.args.deviceId = "D1" /\ last.args.username = "dave"
  /\ UsernamesOf(GetSavedAccounts(savedAccounts, "D1")) = <<"dave", "carol", "bob">>

\* C4: getSavedAccounts returns the device's accounts ordered by lastUsed
\* descending, so that a username saved again comes first.
C4_ListedByLastUsedDescending ==
  \A d \in AllDevices :
    LET list == GetSavedAccounts(savedAccounts, d) IN
    \A i, j \in DOMAIN list : i < j => list[i].lastUsed >= list[j].lastUsed

\* C5: a saveAccount call for a pair that has a saved account changes the
\* number of saved accounts of no device: it neither inserts nor deletes.
C5_ResaveKeepsCounts ==
  SavedExisting =>
    /\ \A d \in AllDevices :
         CountOf(savedAccounts, d) = CountOf(last.prevSaved, d)
    /\ Ids(savedAccounts) = Ids(last.prevSaved)
    /\ Len(savedAccounts) = Len(last.prevSaved)

\* A username saved again on a device that holds three accounts.
C5_Witness ==
  /\ SavedExisting
  /\ CountOf(last.prevSaved, last.args.deviceId) = 3
  /\ last.path = "update"

\* C6: no two saved accounts have the same deviceId and username.
C6_PairUnique ==
  \A i, j \in DOMAIN savedAccounts :
    (/\ savedAccounts[i].deviceId = savedAccounts[j].deviceId
     /\ savedAccounts[i].username = savedAccounts[j].username) => i = j

\* A username saved a second time on a device with another account, and a
\* second device saving the same username.
C6_Witness ==
  /\ SavedExisting
  /\ CountOf(savedAccounts, last.args.deviceId) = 2
  /\ \E d \in Devices :
       d # last.args.deviceId /\ HasPair(savedAccounts, d, last.args.username)

\* C7: when saveAccount finds an account of the pair, afterwards that account
\* has the call's color, status, avatar and preferences, its lastUsed is the
\* current time, not smaller than that of any account of the device, and its
\* id, deviceId and username are what they were.
C7_UpdateOverwrites ==
  SavedExisting =>
    \E i \in DOMAIN last.prevSaved, k \in DOMAIN savedAccounts :
      LET old == last.prevSaved[i]
          new == savedAccounts[k]
      IN /\ old.deviceId = last.args.deviceId /\ old.username = last.args.username
         /\ new.id = old.id
         /\ new.deviceId = old.deviceId /\ new.username = old.username
         /\ new.color = last.args.color /\ new.status = last.args.status
         /\ new.avatar = last.args.avatar
         /\ new.preferences = last.args.preferences
         /\ new.lastUsed = last.time /\ last.time = now
         /\ \A j \in DOMAIN savedAccounts :
              savedAccounts[j].deviceId = new.deviceId
                => savedAccounts[j].lastUsed <= new.lastUsed

\* An account saved again with another color, status, avatar and preferences,
\* on a device with a more recently created account.
C7_Witness ==
  /\ SavedExisting
  /\ \E i \in DOMAIN last.prevSaved :
       /\ last.prevSaved[i].deviceId = last.args.deviceId
       /\ last.prevSaved[i].username = last.args.username
       /\ last.prevSaved[i].color # last.args.color
       /\ last.prevSaved[i].status # last.args.status
       /\ last.prevSaved[i].avatar # last.args.avatar
       /\ last.prevSaved[i].preferences # last.args.preferences
       /\ \E j \in DOMAIN last.prevSaved :
            /\ j > i
            /\ last.prevSaved[j].deviceId = last.args.deviceId

\* C8: saveAccount with an empty deviceId or an empty username is rejected
\* with an error and leaves savedAccounts and users as they were.
C8_BlankRejected ==
  (Saved /\ (last.args.deviceId = "" \/ last.args.username = ""))
  => /\ last.threw
     /\ savedAccounts = last.prevSaved
     /\ users = last.prevUsers

\* C9: saveAccount with a new username on a device that holds 3 accounts
\* raises no error; afterwards the pair has an account and the device holds
\* exactly 3.
C9_FullDeviceSavesSilently ==
  SavedNewOnFull =>
    /\ ~last.threw
    /\ HasPair(savedAccounts, last.args.deviceId, last.args.username)
    /\ CountOf(savedAccounts, last.args.deviceId) = 3

\* A fourth username saved on a device: no error, and one of the three
\* accounts it held is gone.
C9_Witness ==
  /\ SavedNewOnFull /\ ~last.threw
  /\ HasPair(savedAccounts, last.args.deviceId, last.args.username)
  /\ \E id \in Ids(last.prevSaved) : id \notin Ids(savedAccounts)

\* C10: getAccountCount returns the number of saved accounts of the device
\* and maxAccounts 3; for a device that never saved it returns count 0.
C10_CountIsNumberOfAccounts ==
  \A d \in AllDevices :
    /\ GetAccountCount(savedAccounts, d)
         = [count |-> CountOf(savedAccounts, d), maxAccounts |-> 3]
    /\ d \notin seenDevices
         => GetAccountCount(savedAccounts, d) = [count |-> 0, maxAccounts |-> 3]

\* One device has saved three accounts and another has saved one; a third
\* has never saved.
C10_Witness ==
  /\ GetAccountCount(savedAccounts, "D1").count = 3
  /\ GetAccountCount(savedAccounts, "D2").count = 1
  /\ UnseenDevice \notin seenDevices
  /\ GetAccountCount(savedAccounts, UnseenDevice).count = 0


Queried == last.op \in {"getSavedAccounts", "getAccountCount"}

\* C11: getAccountCount and getSavedAccounts are pure reads: a call leaves
\* savedAccounts, users and userActivity as they were, the lastUsed of every
\* account included.
C11_QueriesWriteNothing ==
  Queried =>
    /\ savedAccounts = last.prevSaved
    /\ users = last.prevUsers
    /\ userActivity = last.prevActivity
    /\ ~last.threw

\* The accounts of a device that holds three were listed at a time later
\* than the lastUsed of all of them.
C11_Witness ==
  /\ last.op = "getSavedAccounts"
  /\ Len(last.result) = 3
  /\ \A i \in DOMAIN last.result : last.result[i].lastUsed < now

\* C12: getSavedAccounts returns at most 3 accounts, all of the requested
\* device and none of another; with at most 3 accounts per device it returns
\* all of the device's accounts, as many as getAccountCount counts.
C12_ListIsTheDevicesAccounts ==
  last.op = "getSavedAccounts" =>
    /\ Len(last.result) <= 3
    /\ \A i \in DOMAIN last.result : last.result[i].deviceId = last.args.deviceId
    /\ Docs(last.result)
         = {doc \in Docs(savedAccounts) : doc.deviceId = last.args.deviceId}
    /\ Len(last.result) = GetAccountCount(savedAccounts, last.args.deviceId).count

\* A device with two accounts was listed while another device, created
\* later, holds accounts too.
C12_Witness ==
  /\ last.op = "getSavedAccounts"
  /\ Len(last.result) = 2
  /\ \E i \in DOMAIN savedAccounts :
       /\ savedAccounts[i].deviceId # last.args.deviceId
       /\ \A j \in DOMAIN last.result : savedAccounts[i].id > last.result[j].id

\* C13: when several accounts of the device share the least lastUsed, a
\* saveAccount that evicts deletes the first of them in the order the store
\* returned the accounts, and deletes only that one.
C13_TieEvictsFirstEncountered ==
  LET prev == AccountsOf(last.prevSaved, last.args.deviceId)
      least == {i \in DOMAIN prev :
                  \A j \in DOMAIN prev : prev[i].lastUsed <= prev[j].lastUsed}
  IN (SavedNewOnFull /\ Cardinality(least) > 1)
     => \E i \in least :
          /\ \A j \in least : i <= j
          /\ Docs(last.prevSaved) \ Docs(savedAccounts) = {prev[i]}
          /\ Docs(savedAccounts) \ Docs(last.prevSaved)
               = {[id |-> last.prevId] @@ NewAccount(last.args, last.time)}

\* alice, bob and carol were saved within one millisecond, then dave: alice
\* is gone, bob and carol remain.
C13_Witness ==
  /\ SavedNewOnFull
  /\ UsernamesOf(AccountsOf(last.prevSaved, TieDevice)) = <<"alice", "bob", "carol">>
  /\ \A i \in DOMAIN last.prevSaved : last.prevSaved[i].lastUsed = last.prevSaved[1].lastUsed
  /\ UsernamesOf(AccountsOf(savedAccounts, TieDevice)) = <<"bob", "carol", "dave">>

\* C15: when the store rejects the patch or the delete of saveAccount
\* because the record it names is no longer in the table, saveAccount raises
\* no error and completes the rest of the operation: it makes every call of
\* its path and the username is saved on the device.
C15_VanishedTargetIsNoOp ==
  (last.op = "saveAccount" /\ last.failAt > 0 /\ last.cause = "NotFound") =>
    /\ ~last.threw
    /\ last.attempted = last.calls
    /\ HasPair(savedAccounts, last.args.deviceId, last.args.username)

\* C16: when a call to the store made by saveAccount, getSavedAccounts or
\* getAccountCount fails, the caller gets an error and the function does
\* not make the call again: the failed call is the last one it made.
C16_StoreFailureReachesCaller ==
  (last.op # "none" /\ last.failAt > 0) =>
    /\ last.threw
    /\ last.attempted = SubSeq(last.calls, 1, last.failAt)
    /\ last.op \in {"getSavedAccounts", "getAccountCount"} => last.result = <<>>

\* The delete of an evicting call failed: the call threw after three calls
\* to the store.
C16_Witness ==
  /\ SavedNewOnFull
  /\ last.failAt = 3
  /\ last.calls[3] = Call("delete", "savedAccounts")
  /\ last.threw
  /\ Len(last.attempted) = 3

\* C17: list returns the at most 100 most recently created messages, oldest
\* of them first: after n sends, the last min(n, 100) messages in the order
\* they were sent.
C17_ListIsLastHundredAscending ==
  last.op = "list" =>
    LET n == Len(last.prevMessages)
        m == IF n <= 100 THEN n ELSE 100
    IN /\ Len(last.result) = m
       /\ \A i \in 1 .. m : last.result[i] = last.prevMessages[n - m + i]
       /\ \A i \in 1 .. m - 1 : last.result[i].id < last.result[i + 1].id

\* 102 messages were sent and listed: the third to the last.
C17_Witness ==
  /\ last.op = "list"
  /\ Len(last.prevMessages) = 102
  /\ Len(last.result) = 100
  /\ last.result[1] = last.prevMessages[3]
  /\ last.result[100] = last.prevMessages[102]

\* The message the last call named, as it was before the call.
Target == DbGet(last.prevMessages, last.args.messageId)

ByOwner == Target # <<>> /\ Target[1].username = last.args.username

\* Every message but the one named is as before, and of the one named only
\* the fields in `fields` may differ.
OnlyChanged(fields) ==
  /\ Len(messages) = Len(last.prevMessages)
  /\ \A i \in DOMAIN messages :
       LET was == last.prevMessages[i] IN
       IF was.id # last.args.messageId THEN messages[i] = was
       ELSE /\ DOMAIN messages[i] = DOMAIN was \cup fields
            /\ \A k \in DOMAIN was \ fields : messages[i][k] = was[k]

\* C18: editMessage changes a message only for the caller whose username is
\* the message's: for any other it throws and the messages are unchanged; on
\* success the text is newText, edited is true and nothing else has changed.
C18_EditOnlyOwnMessage ==
  last.op = "editMessage" =>
    IF ByOwner
    THEN /\ ~last.threw
         /\ OnlyChanged({"text", "edited"})
         /\ \A i \in DOMAIN messages :
              messages[i].id = last.args.messageId =>
                messages[i].text = last.args.newText /\ messages[i].edited = TRUE
    ELSE last.threw /\ messages = last.prevMessages

\* bob's edit of a message of alice was refused.
C18_Witness ==
  /\ last.op = "editMessage"
  /\ Target # <<>> /\ Target[1].username = "alice" /\ last.args.username = "bob"
  /\ last.error = "You can only edit your own messages"
  /\ messages = last.prevMessages

\* C19: deleteMessage marks a message deleted only for the caller whose
\* username is the message's: for any other it throws and the messages are
\* unchanged; on success only the deleted flag is set, the message and its
\* text stay in the table.
C19_DeleteOnlyOwnMessage ==
  last.op = "deleteMessage" =>
    IF ByOwner
    THEN /\ ~last.threw
         /\ OnlyChanged({"deleted"})
         /\ \A i \in DOMAIN messages :
              messages[i].id = last.args.messageId =>
                messages[i].deleted = TRUE /\ messages[i].text = Target[1].text
    ELSE last.threw /\ messages = last.prevMessages

\* alice deleted a message of hers that she had edited: it is in the table,
\* marked deleted, with its text.
C19_Witness ==
  /\ last.op = "deleteMessage" /\ ~last.threw
  /\ last.args.username = "alice"
  /\ \E i \in DOMAIN messages :
       /\ messages[i].id = last.args.messageId
       /\ messages[i].deleted = TRUE
       /\ messages[i].text = "yo"
       /\ "deleted" \notin DOMAIN last.prevMessages[i]

\* C20: handleSetUsername never lets a client proceed, to save an account or
\* to enter the chat, with a username that has a users record, two clients
\* submitting the same free username at about the same time included (a
\* client that submits a username its own device has saved is left aside).
C20_UsernameUnique ==
  (/\ last.op = "handleSetUsername"
   /\ last.outcome \in {"saved", "entered"}
   /\ ~HasPair(last.prevSaved, DeviceOf(last.client), last.args.username))
    => UserOf(last.prevUsers, last.args.username) = <<>>

\* The place of the reaction of `user` in a list of reactions that holds one.
PlaceOf(reactions, user) == CHOOSE i \in DOMAIN reactions : reactions[i].user = user

OnePerUser(reactions) ==
  \A i, j \in DOMAIN reactions : reactions[i].user = reactions[j].user => i = j

\* C21: after any sequence of reactToMessage calls the reactions of every
\* message hold at most one entry per user; a reaction removes the user's
\* previous one on the message, is appended last, and leaves the reactions
\* of the other users, and their order, as they were.
C21_OneReactionPerUser ==
  /\ \A i \in DOMAIN messages : OnePerUser(ReactionsOf(messages[i]))
  /\ (last.op = "reactToMessage" /\ Target # <<>>) =>
       LET was == ReactionsOf(Target[1])
           new == ReactionsOf(DbGet(messages, last.args.messageId)[1])
           others == {i \in DOMAIN was : was[i].user # last.args.user}
       IN /\ ~last.threw
          /\ OnlyChanged({"reactions"})
          /\ Len(new) = Cardinality(others) + 1
          /\ new[Len(new)] = [user |-> last.args.user, emoji |-> last.args.emoji]
          /\ \A i \in others :
               /\ \E k \in 1 .. Len(new) - 1 : new[k] = was[i]
               /\ \A j \in others :
                    i < j => PlaceOf(new, was[i].user) < PlaceOf(new, was[j].user)

\* alice, bob and carol had reacted in this order; alice reacted again with
\* another emoji: bob, carol, alice.
C21_Witness ==
  /\ last.op = "reactToMessage" /\ Target # <<>>
  /\ ReactionsOf(Target[1])
       = << [user |-> "alice", emoji |-> "+1"], [user |-> "bob", emoji |-> "+1"],
            [user |-> "carol", emoji |-> "heart"] >>
  /\ ReactionsOf(DbGet(messages, last.args.messageId)[1])
       = << [user |-> "bob", emoji |-> "+1"], [user |-> "carol", emoji |-> "heart"],
            [user |-> "alice", emoji |-> "heart"] >>

\* C22: getTypingUsers returns exactly the typing records whose timestamp is
\* less than 5000 ms before the time of the query, in the order of the
\* table: a record 5000 ms old or older is in the table and not reported.
C22_TypingWithinFiveSeconds ==
  last.op = "getTypingUsers" =>
    /\ typing = last.prevTyping
    /\ \A i \in DOMAIN typing :
         (\E k \in DOMAIN last.result : last.result[k] = typing[i])
           <=> typing[i].timestamp > last.time - 5000
    /\ \A k \in DOMAIN last.result :
         \E i \in DOMAIN typing : last.result[k] = typing[i]
    /\ \A k \in 1 .. Len(last.result) - 1 :
         last.result[k].id < last.result[k + 1].id

\* alice has a record exactly 5000 ms old and bob one 4999 ms old: bob only
\* is reported.
C22_Witness ==
  /\ last.op = "getTypingUsers"
  /\ \E i \in DOMAIN typing :
       typing[i].username = "alice" /\ typing[i].timestamp = last.time - 5000
  /\ \E i \in DOMAIN typing :
       typing[i].username = "bob" /\ typing[i].timestamp = last.time - 4999
  /\ UsernamesOf(last.result) = <<"bob">>

TypingRecords(table, username) == {i \in DOMAIN table : table[i].username = username}

\* C23: after any sequence of setTyping calls executed one at a time, typing
\* holds at most one record per username; setTyping(u, true) leaves exactly
\* one record of u, with the time of the call, and setTyping(u, false)
\* leaves none; the records of the other usernames are as they were.
C23_OneTypingRecordPerUser ==
  /\ \A u \in Senders : Cardinality(TypingRecords(typing, u)) <= 1
  /\ last.op = "setTyping" =>
       /\ ~last.threw
       /\ IF last.args.isTyping
          THEN /\ Cardinality(TypingRecords(typing, last.args.username)) = 1
               /\ \A i \in TypingRecords(typing, last.args.username) :
                    typing[i].timestamp = last.time
          ELSE TypingRecords(typing, last.args.username) = {}
       /\ {typing[i] : i \in DOMAIN typing \ TypingRecords(typing, last.args.username)}
            = {last.prevTyping[i] :
                 i \in DOMAIN last.prevTyping
                       \ TypingRecords(last.prevTyping, last.args.username)}

\* alice, who had a record, called setTyping(true) again while bob has one:
\* her record has the new time, bob's is as it was.
C23_Witness ==
  /\ last.op = "setTyping" /\ last.args.isTyping /\ last.args.username = "alice"
  /\ \E i \in DOMAIN last.prevTyping :
       /\ last.prevTyping[i].username = "alice"
       /\ last.prevTyping[i].timestamp < last.time
       /\ \E j \in DOMAIN typing :
            typing[j].id = last.prevTyping[i].id /\ typing[j].timestamp = last.time
  /\ TypingRecords(typing, "bob") # {}

\* The form that saves the account is shown to client c, who holds an
\* account count of its device of at least maxAccounts.
FormOnLimit(c) ==
  /\ ui[c].version = SaveVersion
  /\ ~ui[c].isUsernameSet
  /\ LimitSeen(ui[c])

MessageCalled ==
  last.op \in {"send", "editMessage", "deleteMessage", "reactToMessage",
               "markRead", "markDelivered", "searchMessages"}

\* C25: once the deleted flag of a message is true, no editMessage,
\* deleteMessage, reactToMessage, markRead or markDelivered makes it false
\* or removes the message, and searchMessages returns no deleted message.
C25_DeletedStaysDeleted ==
  /\ MessageCalled =>
       \A i \in DOMAIN last.prevMessages :
         IsDeleted(last.prevMessages[i]) =>
           \E j \in DOMAIN messages :
             /\ messages[j].id = last.prevMessages[i].id
             /\ "deleted" \in DOMAIN messages[j] /\ messages[j].deleted = TRUE
  /\ last.op = "searchMessages" =>
       \A k \in DOMAIN last.result :
         /\ \E i \in DOMAIN messages : messages[i] = last.result[k]
         /\ "deleted" \notin DOMAIN last.result[k] \/ ~last.result[k].deleted

\* Of two messages with the text searched, the one alice has deleted is not
\* found.
C25_Witness ==
  /\ last.op = "searchMessages" /\ last.args.query = <<"Y">>
  /\ Len(last.result) = 1
  /\ \E i \in DOMAIN messages :
       /\ IsDeleted(messages[i])
       /\ messages[i].text = EditedText
       /\ messages[i].id < last.result[1].id
       /\ last.result[1].text = EditedText

\* C26: markRead keeps readBy free of duplicates and is idempotent: a
\* username is in the readBy of a message at most once, a markRead by a user
\* who is in it leaves the messages as they were, and markRead of a message
\* that does not exist returns false, throws nothing and writes nothing.
C26_MarkReadIdempotent ==
  /\ \A i \in DOMAIN messages :
       \A j, k \in DOMAIN ReadByOf(messages[i]) :
         ReadByOf(messages[i])[j] = ReadByOf(messages[i])[k] => j = k
  /\ last.op = "markRead" =>
       /\ ~last.threw
       /\ last.result = (Target # <<>>)
       /\ IF Target = <<>> THEN messages = last.prevMessages
          ELSE IF \E j \in DOMAIN Target[1].readBy :
                    Target[1].readBy[j] = last.args.username
            THEN messages = last.prevMessages
          ELSE /\ OnlyChanged({"readBy"})
               /\ DbGet(messages, last.args.messageId)[1].readBy
                    = Target[1].readBy \o <<last.args.username>>

\* bob marked as read a message that alice and bob had marked: it is as it
\* was.
C26_Witness ==
  /\ last.op = "markRead" /\ last.args.username = "bob" /\ last.result
  /\ Target # <<>> /\ Target[1].readBy = <<"alice", "bob">>
  /\ messages = last.prevMessages

UsersOf(table, username) == {i \in DOMAIN table : table[i].username = username}

\* C27: after any sequence of updatePreferences, updateStatus,
\* updateAppearance, updatePresence, updateAvatar and saveAccount calls
\* executed one at a time, users holds at most one record per username.
C27_OneUserPerUsername ==
  \A u \in ProfileUsernames : Cardinality(UsersOf(users, u)) <= 1

\* A user created by one mutation was written by another, and a second
\* user exists: one record each.
C27_Witness ==
  /\ last.op \in {"updatePreferences", "updateStatus", "updateAppearance", "saveAccount"}
  /\ UsersOf(last.prevUsers, last.args.username) # {}
  /\ Cardinality(UsersOf(users, "alice")) = 1
  /\ Cardinality(UsersOf(users, "bob")) = 1

\* C28: saveAccount leaves users and userActivity unchanged when the
\* (deviceId, username) pair already has a saved record; on the new-pair
\* path a users record of the username exists afterwards with the call's
\* color, status, avatar and preferences and isOnline true.
C28_UsersWrittenOnNewPairOnly ==
  (last.op = "saveAccount" /\ ~last.threw) =>
    IF last.path = "update"
    THEN users = last.prevUsers /\ userActivity = last.prevActivity
    ELSE \E i \in DOMAIN users :
           /\ users[i].username = last.args.username
           /\ users[i].color = last.args.color
           /\ users[i].status = last.args.status
           /\ AvatarOf(users[i]) = last.args.avatar
           /\ users[i].preferences = last.args.preferences
           /\ users[i].isOnline = TRUE

\* A saved pair was saved again after updateStatus and updateAvatar had
\* changed its user: the account carries the call's status, the user keeps
\* its own status and avatar.
C28_Witness ==
  /\ last.op = "saveAccount" /\ last.path = "update" /\ ~last.threw
  /\ \E i \in DOMAIN users, j \in DOMAIN savedAccounts :
       /\ users[i].username = last.args.username
       /\ savedAccounts[j].username = last.args.username
       /\ savedAccounts[j].status = last.args.status
       /\ users[i].status = NewStatus
       /\ users[i].status # savedAccounts[j].status
       /\ AvatarOf(users[i]) = NewAvatar

\* The username of the last call had no users record when it was made.
Unknown == UsersOf(last.prevUsers, last.args.username) = {}

\* C29: for a username with no users record updatePresence and
\* updateAvatar insert no users record and no userActivity entry, whereas
\* updatePreferences, updateStatus and updateAppearance create the record;
\* for an existing user updatePresence appends exactly one userActivity
\* entry, of type login when isOnline is true and logout when it is false.
C29_PresenceAndAvatarNeedUser ==
  /\ (last.op \in {"updatePresence", "updateAvatar"} /\ Unknown) =>
       users = last.prevUsers /\ userActivity = last.prevActivity
  /\ (last.op \in {"updatePreferences", "updateStatus", "updateAppearance"} /\ Unknown) =>
       /\ Len(users) = Len(last.prevUsers) + 1
       /\ Cardinality(UsersOf(users, last.args.username)) = 1
  /\ (last.op = "updatePresence" /\ ~Unknown) =>
       /\ Len(userActivity) = Len(last.prevActivity) + 1
       /\ Take(userActivity, Len(last.prevActivity)) = last.prevActivity
       /\ userActivity[Len(userActivity)].username = last.args.username
       /\ userActivity[Len(userActivity)].type =
            IF last.args.isOnline THEN "login" ELSE "logout"

\* A user that exists went offline and the logout was logged, while the
\* other username, never created, has no record and no entry.
C29_Witness ==
  /\ last.op = "updatePresence" /\ ~Unknown /\ ~last.args.isOnline
  /\ userActivity # <<>>
  /\ userActivity[Len(userActivity)].type = "logout"
  /\ \E u \in ProfileUsernames :
       /\ UsersOf(users, u) = {}
       /\ UsersOf(userActivity, u) = {}

\* The saved accounts of a device that the last call removed.
Removed(deviceId) ==
  Ids(AccountsOf(last.prevSaved, deviceId)) \ Ids(AccountsOf(savedAccounts, deviceId))

\* C30: a saveAccount call for device D leaves the saved accounts of every
\* other device unchanged and removes at most one record of D; the record it
\* has inserted or refreshed is in the table afterwards, and so is, for
\* every device, the username that device saved most recently.
C30_EvictionSparesOthersAndNewest ==
  (Saved /\ ~last.threw) =>
    /\ \A d \in AllDevices \ {last.args.deviceId} :
         AccountsOf(savedAccounts, d) = AccountsOf(last.prevSaved, d)
    /\ Cardinality(Removed(last.args.deviceId)) <= 1
    /\ \E i \in DOMAIN savedAccounts :
         /\ savedAccounts[i].deviceId = last.args.deviceId
         /\ savedAccounts[i].username = last.args.username
         /\ savedAccounts[i].lastUsed = last.time
    /\ \A d \in DOMAIN last.recent : HasPair(savedAccounts, d, last.recent[d])

\* A full device saved a fourth username and lost one record, while the
\* other device holds an account older than every account of the first.
C30_Witness ==
  /\ SavedNewOnFull /\ ~last.threw
  /\ Cardinality(Removed(last.args.deviceId)) = 1
  /\ \E i \in DOMAIN savedAccounts :
       /\ savedAccounts[i].deviceId # last.args.deviceId
       /\ \A j \in DOMAIN last.prevSaved :
            last.prevSaved[j].deviceId = last.args.deviceId =>
              savedAccounts[i].lastUsed < last.prevSaved[j].lastUsed

====
